---- MODULE Spec2Model ----
(***************************************************************************)
(* Verification model of the sigstore-verifier crate: the RFC 6962         *)
(* inclusion-proof verifier, signing-time resolution, the transparency-log *)
(* verifier and the verify_bundle orchestrator.                            *)
(*                                                                         *)
(* Conventions                                                             *)
(*  - Option<T> is a sequence of length 0 (None) or 1 (Some(x)).           *)
(*  - Result<T, E> is a record [ok |-> BOOLEAN, val |-> ..., err |-> ...]. *)
(*  - A Rust String is a sequence of one-character strings.                *)
(*  - SHA-256 is a free constructor: Sha256(x) = Sha256(y) iff x = y, and  *)
(*    its argument is the tuple of the blocks that were concatenated       *)
(*    (every hash has the same width, so the concatenation of a prefix     *)
(*    byte and two hashes decodes uniquely).                               *)
(***************************************************************************)
EXTENDS Integers, Sequences, FiniteSets, TLC

VARIABLES
    \* ---- crypto/merkle.rs: the arguments and the result of one call
    leaf_hash, log_index, tree_size, proof_hashes, root_hash,
    merkle_res,      \* <<>> before the call returns, <<result>> after
    origin,          \* how the arguments were produced
    tamper,          \* which single argument was changed after an accepted call
    \* ---- the inputs of one verification
    bundle,          \* the parsed SigstoreBundle
    \* ---- verifier/timestamp.rs, parser/bundle.rs: results of the two
    \*      timestamp functions on the bundle (<<>> before the call returns)
    signing_time_res, bundle_ts_res,
    \* ---- verifier/transparency.rs: one call of verify_transparency_log
    skip_verification, tlog_res,
    \* ---- lib.rs: one call of verify_bundle_internal
    options,         \* VerificationOptions
    trust_bundle,    \* the CertificateChain of the trust root
    pc,              \* the step that runs next
    ran,             \* the steps that have run, in order
    frame,           \* the locals bound so far
    result,          \* <<>> while running, <<outcome>> once the call has ended
    \* ---- one call of a function that reads nothing but its arguments
    call,            \* the function and its arguments
    ret              \* <<>> before the call returns, <<value>> after

merkle_vars == <<leaf_hash, log_index, tree_size, proof_hashes, root_hash,
                 merkle_res, origin, tamper>>

time_vars == <<signing_time_res, bundle_ts_res>>

tlog_vars == <<skip_verification, tlog_res>>

verify_vars == <<options, trust_bundle, pc, ran, frame, result>>

call_vars == <<call, ret>>

vars == <<merkle_vars, bundle, time_vars, tlog_vars, verify_vars, call_vars>>

\* what the actions of one component leave alone
not_merkle == <<bundle, time_vars, tlog_vars, verify_vars, call_vars>>
not_time == <<merkle_vars, tlog_vars, verify_vars, call_vars>>
not_tlog == <<merkle_vars, time_vars, verify_vars, call_vars>>
not_verify == <<merkle_vars, time_vars, tlog_vars, call_vars>>
not_call == <<merkle_vars, bundle, time_vars, tlog_vars, verify_vars>>

----------------------------------------------------------------------------
(* Bounds of the model *)

\* Largest canonical tree that is built
MaxTree == 6
\* Leaves whose hashes make up the pool of arbitrary hash values
PoolLeaves == 2
\* Largest log_index / tree_size of an arbitrary call
MaxIndex == 3
\* Longest proof of an arbitrary call
MaxProof == 1
\* Longest integrated_time string that is enumerated
MaxTimeLen == 2
\* Longest rfc3161_timestamps list
MaxTokens == 2
\* Longest tlog_entries list
MaxEntries == 2
\* Latest second of a signing time or of a certificate's validity bound
MaxTime == 4
\* Longest list of intermediates of a trust chain
MaxIntermediates == 2
\* Largest number of authorities of one kind in the trusted roots
MaxAuthorities == 2
\* Longest media type, in parts
MaxMediaLen == 3
\* Longest subject list of a statement
MaxSubjects == 2
\* Longest JSONL content, in characters and JSON texts
MaxContent == 4
\* Most PEM blocks of a response body, most certificates of a served chain
MaxBlocks == 3
\* Most certificates of the chain of an authority
MaxCerts == 4
\* Most general names of a SAN
MaxNames == 3
\* Most bytes of an extension value
MaxValueLen == 4

----------------------------------------------------------------------------
(* Option and Result helpers *)

None == <<>>
Some(x) == <<x>>
IsSome(o) == Len(o) = 1
IsNone(o) == Len(o) = 0
Unwrap(o) == o[1]

SeqsUpTo(S, n) == UNION {[1..k -> S] : k \in 0..n}

Ok(v) == [ok |-> TRUE, val |-> <<v>>, err |-> "none"]
Err(e) == [ok |-> FALSE, val |-> <<>>, err |-> e]

----------------------------------------------------------------------------
(* crypto/hash.rs, crypto/merkle.rs *)

\* sha256 over the concatenation of the given blocks
sha256(blocks) == <<"sha256", blocks>>

\* RFC 6962 leaf hash: SHA256(0x00 || data)
compute_leaf_hash(data) == sha256(<<0, data>>)

\* Hash parent: SHA256(0x01 || left || right)
HashParent_swapped(left, right) == sha256(<<1, right, left>>)
HashParent(left, right) == sha256(<<1, left, right>>)

InclusionProofFailed == "InclusionProofFailed"
MerkleOk == "Ok"

\* the guard of the first early return: log_index >= tree_size
IndexOutOfBounds_gt(index, size) == index > size
IndexOutOfBounds(index, size) == index >= size

\* the condition that makes the current node the left sibling
IsLeftSibling_noLast(index, size) == index % 2 = 0
IsLeftSibling(index, size) == index % 2 = 0 /\ index + 1 < size

\* the guard of the early return inside the loop: size <= 1
SubtreeExhausted_empty(size) == size <= 0
SubtreeExhausted(size) == size <= 1

\* the loop over proof_hashes; k is the position of the next proof hash,
\* hashed counts the proof hashes read and hashed so far
RECURSIVE FoldProof(_, _, _, _, _)
FoldProof(computed_hash, index, size, proof, k) ==
    IF k > Len(proof)
    THEN [rejected |-> FALSE, hash |-> computed_hash, hashed |-> k - 1]
    ELSE IF SubtreeExhausted(size)
    THEN [rejected |-> TRUE, hash |-> computed_hash, hashed |-> k - 1]
    ELSE LET proof_hash == proof[k]
             parent == IF IsLeftSibling(index, size)
                       THEN HashParent(computed_hash, proof_hash)
                       ELSE HashParent(proof_hash, computed_hash)
         IN  FoldProof(parent, index \div 2, (size + 1) \div 2, proof, k + 1)

verify_inclusion_proof(leaf, index, size, proof, root) ==
    IF IndexOutOfBounds(index, size)
    THEN [res |-> InclusionProofFailed, hashed |-> 0]
    ELSE LET f == FoldProof(leaf, index, size, proof, 1)
         IN  IF f.rejected
             THEN [res |-> InclusionProofFailed, hashed |-> f.hashed]
             ELSE IF f.hash = root
             THEN [res |-> MerkleOk, hashed |-> f.hashed]
             ELSE [res |-> InclusionProofFailed, hashed |-> f.hashed]

----------------------------------------------------------------------------
(* Strings and integer parsing (core::str::parse) *)

Digits == <<"0", "1", "2", "3", "4", "5", "6", "7", "8", "9">>
IsDigit(c) == \E i \in 1..10 : Digits[i] = c
DigitVal(c) == (CHOOSE i \in 1..10 : Digits[i] = c) - 1

\* the digit loop of from_str: result = result * 10 +/- digit, left to right;
\* an invalid digit gives Err.  The values of the model stay inside the
\* integer width, so the overflow branches are never taken.
RECURSIVE ParseDigits(_, _, _, _)
ParseDigits(s, k, positive, acc) ==
    IF k > Len(s) THEN Ok(acc)
    ELSE IF ~IsDigit(s[k]) THEN Err("InvalidDigit")
    ELSE ParseDigits(s, k + 1, positive,
                     IF positive THEN acc * 10 + DigitVal(s[k])
                                 ELSE acc * 10 - DigitVal(s[k]))

\* str::parse::<i64>() (signed = TRUE) and str::parse::<u64>() (signed = FALSE)
ParseInt(s, signed) ==
    IF Len(s) = 0 THEN Err("Empty")
    ELSE IF Len(s) = 1 /\ s[1] \in {"+", "-"} THEN Err("InvalidDigit")
    ELSE IF s[1] = "+" THEN ParseDigits(s, 2, TRUE, 0)
    ELSE IF s[1] = "-" /\ signed THEN ParseDigits(s, 2, FALSE, 0)
    ELSE ParseDigits(s, 1, TRUE, 0)

----------------------------------------------------------------------------
(* Base64 fields.  A base64 string is either malformed or the encoding of  *)
(* some bytes; decoding gives the bytes back.                              *)

B64Bad == [b64 |-> FALSE, bytes |-> <<>>]
B64Of(x) == [b64 |-> TRUE, bytes |-> <<x>>]

decode_base64(input) ==
    IF input.b64 THEN Ok(input.bytes[1]) ELSE Err("InvalidBundleFormat")

----------------------------------------------------------------------------
(* types/bundle.rs *)

TransparencyLogEntry(time, proof, promise, body) ==
    [integrated_time |-> time, inclusion_proof |-> proof,
     inclusion_promise |-> promise, canonicalized_body |-> body]

Rfc3161Timestamp(st) == [signed_timestamp |-> st]

TimestampVerificationData(list) == [rfc3161_timestamps |-> list]

\* DER bytes of a timestamp token: a TimeStampToken whose TSTInfo carries
\* genTime g, or bytes that are no token
TstDer(g) == [tst |-> TRUE, gen_time |-> g]
GarbageDer == [tst |-> FALSE, gen_time |-> 0]

----------------------------------------------------------------------------
(* parser/timestamp.rs, verifier/timestamp.rs, parser/bundle.rs *)

NoTimestamp == "TimestampError::NoTimestamp"
InvalidIntegratedTime == "TimestampError::InvalidIntegratedTime"
Rfc3161NotSupported == "TimestampError::Rfc3161NotSupported"
InvalidBundleFormat == "InvalidBundleFormat"

\* DateTime::from_timestamp(secs, 0): the DateTime is its Unix seconds; the
\* values of the model lie inside chrono's range
DateTime_from_timestamp(secs) == Some(secs)

parse_integrated_time(time_str) ==
    LET timestamp == ParseInt(time_str, TRUE)
    IN  IF ~timestamp.ok THEN Err(InvalidIntegratedTime)
        ELSE LET dt == DateTime_from_timestamp(timestamp.val[1])
             IN  IF IsSome(dt) THEN Ok(Unwrap(dt)) ELSE Err(InvalidIntegratedTime)

get_integrated_time(entry) == parse_integrated_time(entry.integrated_time)

\* tlog_entries.first()
FirstEntry_last(entries) == IF Len(entries) = 0 THEN None ELSE Some(entries[Len(entries)])
FirstEntry(entries) == IF Len(entries) = 0 THEN None ELSE Some(entries[1])

\* the three nested conditions of the RFC 3161 branch
Rfc3161Present(b) ==
    LET tvd == b.verification_material.timestamp_verification_data
    IN  /\ IsSome(tvd)
        /\ IsSome(Unwrap(tvd).rfc3161_timestamps)
        /\ Len(Unwrap(Unwrap(tvd).rfc3161_timestamps)) > 0

get_signing_time(b) ==
    LET \* the body of the RFC 3161 branch is commented out: it returns nothing
        rfc3161 == IF Rfc3161Present(b) THEN None ELSE None
        tlog == b.verification_material.tlog_entries
    IN  IF IsSome(rfc3161) THEN Unwrap(rfc3161)
        ELSE IF IsSome(tlog) /\ IsSome(FirstEntry(Unwrap(tlog)))
        THEN get_integrated_time(Unwrap(FirstEntry(Unwrap(tlog))))
        ELSE Err(NoTimestamp)

\* parser::rfc3161::parse_rfc3161_timestamp, then .tst_info.gen_time.timestamp()
rfc3161_parse_gen_time(der) ==
    IF der.tst THEN Ok(der.gen_time) ELSE Err("TimestampError::Rfc3161Parse")

extract_bundle_timestamp(b) ==
    LET tlog == b.verification_material.tlog_entries
    IN  IF Rfc3161Present(b)
        THEN LET list == Unwrap(Unwrap(b.verification_material.timestamp_verification_data).rfc3161_timestamps)
                 timestamp_der == decode_base64(list[1].signed_timestamp)
             IN  IF ~timestamp_der.ok THEN Err(InvalidBundleFormat)
                 ELSE LET parsed == rfc3161_parse_gen_time(timestamp_der.val[1])
                      IN  IF parsed.ok THEN Ok(parsed.val[1]) ELSE Err(InvalidBundleFormat)
        ELSE IF IsSome(tlog) /\ IsSome(FirstEntry(Unwrap(tlog)))
        THEN LET dt == parse_integrated_time(Unwrap(FirstEntry(Unwrap(tlog))).integrated_time)
             IN  IF dt.ok THEN Ok(dt.val[1]) ELSE Err(InvalidBundleFormat)
        ELSE Err(InvalidBundleFormat)

----------------------------------------------------------------------------
(* verifier/transparency.rs *)

NoRekorEntry == "TransparencyError::NoRekorEntry"
InvalidEntryHash == "TransparencyError::InvalidEntryHash"
SignedEntryTimestampInvalid == "TransparencyError::SignedEntryTimestampInvalid"

InclusionProof(li, ts, root, hashes) ==
    [log_index |-> li, tree_size |-> ts, root_hash |-> root, hashes |-> hashes]

InclusionPromise(set) == [signed_entry_timestamp |-> set]

\* the loop that decodes inclusion_proof.hashes: the decoded hashes, or the
\* error of the first one that does not decode
RECURSIVE DecodeHashes(_, _, _)
DecodeHashes(hashes, k, acc) ==
    IF k > Len(hashes) THEN Ok(acc)
    ELSE LET hash == decode_base64(hashes[k])
         IN  IF ~hash.ok THEN Err(InvalidEntryHash)
             ELSE DecodeHashes(hashes, k + 1, Append(acc, hash.val[1]))

\* the body of `if let Some(ref inclusion_proof) = entry.inclusion_proof`
VerifyEntryInclusionProof(entry, inclusion_proof) ==
    LET li == ParseInt(inclusion_proof.log_index, FALSE)
        ts == ParseInt(inclusion_proof.tree_size, FALSE)
        root == decode_base64(inclusion_proof.root_hash)
        hs == DecodeHashes(inclusion_proof.hashes, 1, <<>>)
        canonicalized_body == decode_base64(entry.canonicalized_body)
    IN  IF ~li.ok THEN Err(InvalidEntryHash)
        ELSE IF ~ts.ok THEN Err(InvalidEntryHash)
        ELSE IF ~root.ok THEN Err(InvalidEntryHash)
        ELSE IF ~hs.ok THEN Err(InvalidEntryHash)
        ELSE IF ~canonicalized_body.ok THEN Err(InvalidEntryHash)
        ELSE LET r == verify_inclusion_proof(compute_leaf_hash(canonicalized_body.val[1]),
                                             li.val[1], ts.val[1], hs.val[1], root.val[1])
             IN  IF r.res = MerkleOk THEN Ok("unit") ELSE Err(r.res)

\* the body of `if let Some(ref inclusion_promise) = entry.inclusion_promise`
CheckInclusionPromise_unchecked(inclusion_promise) == Ok("unit")
CheckInclusionPromise(inclusion_promise) ==
    IF decode_base64(inclusion_promise.signed_entry_timestamp).ok
    THEN Ok("unit") ELSE Err(SignedEntryTimestampInvalid)

\* if skip_verification { return Ok(()) }
SkipRequested_never(skip) == FALSE
SkipRequested(skip) == skip

verify_transparency_log(b, skip) ==
    LET tlog_entries == b.verification_material.tlog_entries
    IN  IF SkipRequested(skip) THEN Ok("unit")
        ELSE IF IsNone(tlog_entries) THEN Err(NoRekorEntry)
        ELSE IF Len(Unwrap(tlog_entries)) = 0 THEN Err(NoRekorEntry)
        ELSE LET entry == Unwrap(tlog_entries)[1]
                 proof == IF IsSome(entry.inclusion_proof)
                          THEN VerifyEntryInclusionProof(entry, Unwrap(entry.inclusion_proof))
                          ELSE Ok("unit")
             IN  IF ~proof.ok THEN proof
                 ELSE IF IsSome(entry.inclusion_promise)
                 THEN CheckInclusionPromise(Unwrap(entry.inclusion_promise))
                 ELSE Ok("unit")

----------------------------------------------------------------------------
(* types/certificate.rs, parser/certificate.rs, verifier/certificate.rs    *)
(* The DER bytes of a certificate are the record of what the X.509 parser  *)
(* reads from them; a signature names the key that made it.                *)

X509(name, key, signer, nb, na) ==
    [x509 |-> TRUE, subject |-> name, public_key |-> key, signature_key |-> signer,
     not_before |-> nb, not_after |-> na, san |-> <<>>, extensions |-> <<>>]

\* the same certificate with a Subject Alternative Name extension (a list of
\* general names) and further extensions (oid, value bytes)
WithIdentity(cert, general_names, extensions) ==
    [cert EXCEPT !.san = <<general_names>>, !.extensions = extensions]

\* bytes that are no certificate
GarbageCert ==
    [x509 |-> FALSE, subject |-> "", public_key |-> "", signature_key |-> "",
     not_before |-> 0, not_after |-> 0, san |-> <<>>, extensions |-> <<>>]

CertificateChain(leaf, intermediates, root) ==
    [leaf |-> leaf, intermediates |-> intermediates, root |-> root]

CertificateChainHashes(leaf, intermediates, root) ==
    [leaf |-> leaf, intermediates |-> intermediates, root |-> root]

ParseError == "CertificateError::ParseError"
ChainVerificationFailed == "CertificateError::ChainVerificationFailed"
SigningTimeOutsideValidity == "CertificateError::SigningTimeOutsideValidity"
\* the call did not return: the thread panicked
Panic == "panic"

parse_der_certificate(der) == IF der.x509 THEN Ok(der) ELSE Err(ParseError)

verify_cert_signature_bySigner(cert, issuer) ==
    IF cert.signature_key = issuer.signature_key THEN Ok("unit")
    ELSE Err(ChainVerificationFailed)
verify_cert_signature(cert, issuer) ==
    IF cert.signature_key = issuer.public_key THEN Ok("unit")
    ELSE Err(ChainVerificationFailed)

\* the first certificate of the list that does not parse, if any
RECURSIVE ParseAll(_, _)
ParseAll(ders, k) ==
    IF k > Len(ders) THEN Ok("unit")
    ELSE IF ~parse_der_certificate(ders[k]).ok THEN Err(ParseError)
    ELSE ParseAll(ders, k + 1)

\* for i in 0..intermediate_x509.len() - 1
RECURSIVE VerifyIntermediates(_, _)
VerifyIntermediates(xs, i) ==
    IF i >= Len(xs) THEN Ok("unit")
    ELSE IF ~verify_cert_signature(xs[i], xs[i + 1]).ok THEN Err(ChainVerificationFailed)
    ELSE VerifyIntermediates(xs, i + 1)

\* chain.intermediates.iter().map(|der| sha256(der)).collect()
IntermediateHashes_reversed(ints) ==
    [i \in 1..Len(ints) |-> sha256(<<ints[Len(ints) + 1 - i]>>)]
IntermediateHashes(ints) ==
    [i \in 1..Len(ints) |-> sha256(<<ints[i]>>)]

verify_certificate_chain(b, trust) ==
    LET leaf_der == decode_base64(b.verification_material.certificate.raw_bytes)
    IN  IF ~leaf_der.ok THEN Err(ParseError)
        ELSE
        LET chain == CertificateChain(leaf_der.val[1], trust.intermediates, trust.root)
            ints == chain.intermediates
        IN  IF ~parse_der_certificate(chain.leaf).ok THEN Err(ParseError)
            ELSE IF ~ParseAll(ints, 1).ok THEN Err(ParseError)
            ELSE IF ~parse_der_certificate(chain.root).ok THEN Err(ParseError)
            \* intermediate_x509[0] on an empty vector: index out of bounds
            ELSE IF Len(ints) = 0 THEN Err(Panic)
            ELSE IF ~verify_cert_signature(chain.leaf, ints[1]).ok
                 THEN Err(ChainVerificationFailed)
            ELSE IF ~VerifyIntermediates(ints, 1).ok THEN Err(ChainVerificationFailed)
            ELSE IF ~verify_cert_signature(ints[Len(ints)], chain.root).ok
                 THEN Err(ChainVerificationFailed)
            ELSE IF ~verify_cert_signature(chain.root, chain.root).ok
                 THEN Err(ChainVerificationFailed)
            ELSE Ok([chain |-> chain,
                     hashes |-> CertificateChainHashes(
                         sha256(<<chain.leaf>>),
                         IntermediateHashes(ints),
                         sha256(<<chain.root>>))])

\* signing_timestamp < not_before || signing_timestamp > not_after
OutsideValidity_exclusive(signing_timestamp, not_before, not_after) ==
    signing_timestamp <= not_before \/ signing_timestamp >= not_after
OutsideValidity(signing_timestamp, not_before, not_after) ==
    signing_timestamp < not_before \/ signing_timestamp > not_after

verify_signing_time_in_validity(signing_time, cert) ==
    IF OutsideValidity(signing_time, cert.not_before, cert.not_after)
    THEN Err(SigningTimeOutsideValidity)
    ELSE Ok("unit")

----------------------------------------------------------------------------
(* parser/identity.rs.  Text is the sequence of its bytes; the bytes of    *)
(* the model are ASCII characters and 255, which no UTF-8 text contains.   *)

OID_ISSUER == "1.3.6.1.4.1.57264.1.8"
OID_SOURCE_REPOSITORY_URI == "1.3.6.1.4.1.57264.1.12"
OID_SOURCE_REPOSITORY_REF == "1.3.6.1.4.1.57264.1.14"
OID_GITHUB_WORKFLOW_TRIGGER == "1.3.6.1.4.1.57264.1.2"
OID_GITHUB_WORKFLOW_REPOSITORY == "1.3.6.1.4.1.57264.1.5"
OID_GITHUB_WORKFLOW_REF == "1.3.6.1.4.1.57264.1.6"

OidcIdentity(issuer, subject, workflow_ref, repository, event_name) ==
    [issuer |-> issuer, subject |-> subject, workflow_ref |-> workflow_ref,
     repository |-> repository, event_name |-> event_name]

GeneralName(kind, value) == [kind |-> kind, value |-> value]
X509Extension(oid, value) == [oid |-> oid, value |-> value]

\* std::str::from_utf8(bytes).is_ok()
IsUtf8(bytes) == \A i \in 1..Len(bytes) : bytes[i] < 128

\* tags of UTF8String, IA5String, PrintableString
Utf8StringTag == 12
Ia5StringTag == 22
PrintableStringTag == 19

extract_string_from_extension(ext) ==
    LET bytes == ext.value
    IN  IF Len(bytes) = 0 THEN Ok(None)
        ELSE IF /\ Len(bytes) > 2
                /\ bytes[1] \in {Utf8StringTag, Ia5StringTag, PrintableStringTag}
                /\ bytes[2] + 2 <= Len(bytes)
                /\ IsUtf8(SubSeq(bytes, 3, 2 + bytes[2]))
        THEN Ok(Some(SubSeq(bytes, 3, 2 + bytes[2])))
        ELSE IF IsUtf8(bytes) THEN Ok(Some(bytes))
        ELSE Ok(None)

\* a URI becomes the subject: if identity.subject.is_none()
UriApplies_always(subject) == TRUE
UriApplies(subject) == IsNone(subject)

\* for name in &san_ext.value.general_names
RECURSIVE SanSubject(_, _, _)
SanSubject(names, k, subject) ==
    IF k > Len(names) THEN subject
    ELSE IF names[k].kind = "RFC822Name"
         THEN SanSubject(names, k + 1, Some(names[k].value))
    ELSE IF names[k].kind = "URI" /\ UriApplies(subject)
         THEN SanSubject(names, k + 1, Some(names[k].value))
    ELSE SanSubject(names, k + 1, subject)

\* for ext in cert.extensions()
RECURSIVE FulcioExtensions(_, _, _)
FulcioExtensions(exts, k, identity) ==
    IF k > Len(exts) THEN Ok(identity)
    ELSE LET oid == exts[k].oid
             s == extract_string_from_extension(exts[k])
             field == IF oid = OID_ISSUER THEN "issuer"
                      ELSE IF oid \in {OID_SOURCE_REPOSITORY_URI,
                                       OID_GITHUB_WORKFLOW_REPOSITORY} THEN "repository"
                      ELSE IF oid \in {OID_SOURCE_REPOSITORY_REF,
                                       OID_GITHUB_WORKFLOW_REF} THEN "workflow_ref"
                      ELSE IF oid = OID_GITHUB_WORKFLOW_TRIGGER THEN "event_name"
                      ELSE "none"
         IN  IF field = "none" THEN FulcioExtensions(exts, k + 1, identity)
             ELSE IF ~s.ok THEN s
             ELSE FulcioExtensions(exts, k + 1, [identity EXCEPT ![field] = s.val[1]])

extract_oidc_identity(cert) ==
    LET subject == IF IsSome(cert.san) THEN SanSubject(Unwrap(cert.san), 1, None)
                   ELSE None
    IN  FulcioExtensions(cert.extensions, 1,
                         OidcIdentity(None, subject, None, None, None))

----------------------------------------------------------------------------
(* types/dsse.rs, parser/bundle.rs, verifier/subject.rs,                   *)
(* verifier/signature.rs                                                   *)

\* a hex string: malformed, or the encoding of some bytes
HexBad == [hex |-> FALSE, bytes |-> <<>>]
HexOf(x) == [hex |-> TRUE, bytes |-> <<x>>]

\* a subject whose digest map holds, or does not hold, a "sha256" key
Subject(sha256_digest) == [sha256_digest |-> sha256_digest]

\* the JSON bytes of a Statement, and bytes that are no Statement
StatementJson(subject) == [json |-> TRUE, subject |-> subject]
NotJson == [json |-> FALSE, subject |-> <<>>]

DsseEnvelope(payload, payload_type, signatures) ==
    [payload |-> payload, payload_type |-> payload_type, signatures |-> signatures]

SubjectDigestMismatch == "SubjectDigestMismatch"
InvalidSignature == "InvalidSignature"

parse_dsse_payload(envelope) ==
    LET payload_bytes == decode_base64(envelope.payload)
    IN  IF ~payload_bytes.ok THEN Err(InvalidBundleFormat)
        ELSE IF ~payload_bytes.val[1].json THEN Err(InvalidBundleFormat)
        ELSE Ok([subject |-> payload_bytes.val[1].subject])

\* Statement::get_subject_digest("sha256")
get_subject_digest(statement) ==
    IF Len(statement.subject) = 0 THEN None
    ELSE statement.subject[1].sha256_digest

verify_subject_digest(statement, expected_digest) ==
    LET digest_hex == get_subject_digest(statement)
    IN  IF IsNone(digest_hex) THEN Err(InvalidBundleFormat)
        ELSE IF ~Unwrap(digest_hex).hex THEN Err(InvalidBundleFormat)
        ELSE LET digest == Unwrap(digest_hex).bytes[1]
             IN  IF IsSome(expected_digest) /\ Unwrap(expected_digest) # digest
                 THEN Err(SubjectDigestMismatch)
                 ELSE Ok(digest)

\* DSSE pre-authentication encoding of (payload_type, payload)
PAE(payload_type, payload_bytes) == <<"DSSEv1", payload_type, payload_bytes>>

\* the bytes of a signature made with `key` over `message`
SignatureBytes(key, message) == [key |-> key, message |-> message]

verify_dsse_signature(envelope, chain) ==
    LET payload_bytes == decode_base64(envelope.payload)
        sig == decode_base64(envelope.signatures[1].sig)
    IN  IF ~payload_bytes.ok \/ ~sig.ok THEN Err(InvalidSignature)
        ELSE IF /\ sig.val[1].key = chain.leaf.public_key
                /\ sig.val[1].message = PAE(envelope.payload_type, payload_bytes.val[1])
        THEN Ok("unit")
        ELSE Err(InvalidSignature)

----------------------------------------------------------------------------
(* types/result.rs, lib.rs *)

VerificationOptions(expected_digest, verify_rekor) ==
    [expected_digest |-> expected_digest, verify_rekor |-> verify_rekor,
     allow_insecure_sct |-> FALSE, expected_issuer |-> None, expected_subject |-> None]

\* #[derive(Default)]
VerificationOptions_default ==
    [expected_digest |-> None, verify_rekor |-> FALSE,
     allow_insecure_sct |-> FALSE, expected_issuer |-> None, expected_subject |-> None]

WithExpectedIdentity(opts, expected_issuer, expected_subject) ==
    [opts EXCEPT !.expected_issuer = expected_issuer,
                 !.expected_subject = expected_subject]

IdentityMismatch == "IdentityMismatch"

VerificationResult(certificate_hashes, signing_time, subject_digest, oidc_identity) ==
    [certificate_hashes |-> certificate_hashes, signing_time |-> signing_time,
     subject_digest |-> subject_digest, oidc_identity |-> oidc_identity]

\* the statements of verify_bundle_internal, in program order
StepOrder ==
    <<"subject_digest", "signing_time", "certificate_chain", "validity",
      "dsse_signature", "transparency_log">>

StepOrder_chainFirst ==
    <<"subject_digest", "certificate_chain", "signing_time", "validity",
      "dsse_signature", "transparency_log">>

\* the step after step p; "return" after the last one
NextStep_of(order, p) ==
    LET i == CHOOSE j \in 1..Len(order) : order[j] = p
    IN  IF i = Len(order) THEN "return" ELSE order[i + 1]

NextStep_chainFirst(p) == NextStep_of(StepOrder_chainFirst, p)
NextStep(p) == NextStep_of(StepOrder, p)

\* the second argument of verify_transparency_log: !options.verify_rekor
SkipRekor_notNegated(opts) == opts.verify_rekor
SkipRekor(opts) == ~opts.verify_rekor

----------------------------------------------------------------------------
(* RFC 6962 section 2.1: the canonical tree and its audit paths.  Leaf j   *)
(* of the tree carries the data j.                                         *)

RECURSIVE LargestPow2Below(_, _)
\* the largest power of two smaller than n (n >= 2), searched from k = 1
LargestPow2Below(n, k) == IF 2 * k < n THEN LargestPow2Below(n, 2 * k) ELSE k

RECURSIVE MTH(_, _)
\* Merkle tree hash of the n leaves lo .. lo+n-1 (n >= 1)
MTH(lo, n) ==
    IF n = 1 THEN compute_leaf_hash(lo)
    ELSE LET k == LargestPow2Below(n, 1)
         IN  HashParent(MTH(lo, k), MTH(lo + k, n - k))

RECURSIVE PATH(_, _, _)
\* audit path of leaf m (relative to lo) in the tree of leaves lo .. lo+n-1
PATH(m, lo, n) ==
    IF n = 1 THEN <<>>
    ELSE LET k == LargestPow2Below(n, 1)
         IN  IF m < k
             THEN Append(PATH(m, lo, k), MTH(lo + k, n - k))
             ELSE Append(PATH(m - k, lo + k, n - k), MTH(lo, k))

----------------------------------------------------------------------------
(* fetcher/jsonl/types.rs, fetcher/jsonl/parser.rs, types/certificate.rs.  *)
(* A URI is the sequence of its parts (scheme, host, path); an RFC 3339    *)
(* string is what the parser reads from it: a local time in seconds and a  *)
(* UTC offset.                                                             *)

FulcioInstances == {"GitHub", "PublicGood"}

trust_bundle_url(instance) ==
    IF instance = "GitHub"
    THEN <<"https://", "fulcio.githubapp.com", "/api/v2/trustBundle">>
    ELSE <<"https://", "fulcio.sigstore.dev", "/api/v2/trustBundle">>

\* s.trim_start_matches(prefix)
RECURSIVE trim_start_matches(_, _)
trim_start_matches(s, prefix) ==
    IF Len(s) > 0 /\ s[1] = prefix THEN trim_start_matches(Tail(s), prefix) ELSE s

\* expected_uri.trim_start_matches("https://").split('/').next().unwrap()
ExpectedCaDomain(instance) ==
    Head(trim_start_matches(trust_bundle_url(instance), "https://"))

ExpectedTsaDomain(instance) ==
    IF instance = "GitHub" THEN "timestamp.githubapp.com" ELSE "timestamp.sigstore.dev"

\* uri.contains(domain)
Contains(uri, domain) == \E i \in 1..Len(uri) : uri[i] = domain

Rfc3339(local, offset) == [rfc3339 |-> TRUE, local |-> local, offset |-> offset]
Rfc3339Bad == [rfc3339 |-> FALSE, local |-> 0, offset |-> 0]

InvalidBundleFormatWith(message) == <<InvalidBundleFormat, message>>

parse_rfc3339_timestamp(s) ==
    IF s.rfc3339 THEN Ok(s.local - s.offset)
    ELSE Err(InvalidBundleFormatWith(<<"Invalid RFC3339 timestamp">>))

ValidityPeriod(start, end) == [start |-> start, end |-> end]
CertChain(certificates) == [certificates |-> certificates]
\* CertificateAuthority and TimestampAuthority
Authority(uri, cert_chain, valid_for) ==
    [uri |-> uri, cert_chain |-> cert_chain, valid_for |-> valid_for]
TrustedRoot(certificate_authorities, timestamp_authorities) ==
    [certificate_authorities |-> certificate_authorities,
     timestamp_authorities |-> timestamp_authorities]

\* BASE64_STANDARD.decode of every certificate of the chain, in order
RECURSIVE DecodeCertificates(_, _, _)
DecodeCertificates(certificates, k, der_certs) ==
    IF k > Len(certificates) THEN Ok(der_certs)
    ELSE LET der == decode_base64(certificates[k].raw_bytes)
         IN  IF ~der.ok
             THEN Err(InvalidBundleFormatWith(<<"Failed to decode certificate">>))
             ELSE DecodeCertificates(certificates, k + 1, Append(der_certs, der.val[1]))

extract_cert_chain_from_authority_rootFirst(cert_chain) ==
    IF Len(cert_chain.certificates) = 0
    THEN Err(InvalidBundleFormatWith(<<"Certificate chain is empty">>))
    ELSE LET decoded == DecodeCertificates(cert_chain.certificates, 1, <<>>)
         IN  IF ~decoded.ok THEN decoded
             ELSE Ok(CertificateChain(<<>>, Tail(decoded.val[1]), decoded.val[1][1]))
extract_cert_chain_from_authority(cert_chain) ==
    IF Len(cert_chain.certificates) = 0
    THEN Err(InvalidBundleFormatWith(<<"Certificate chain is empty">>))
    ELSE LET decoded == DecodeCertificates(cert_chain.certificates, 1, <<>>)
         IN  IF ~decoded.ok THEN decoded
             ELSE LET der_certs == decoded.val[1]
                      n == Len(der_certs)
                  IN  IF n = 1
                      THEN Ok(CertificateChain(<<>>, <<>>, der_certs[1]))
                      ELSE Ok(CertificateChain(<<>>, SubSeq(der_certs, 1, n - 1),
                                               der_certs[n]))

extract_tsa_cert_chain_from_authority_emptyLeaf(cert_chain) ==
    extract_cert_chain_from_authority(cert_chain)
extract_tsa_cert_chain_from_authority(cert_chain) ==
    IF Len(cert_chain.certificates) = 0
    THEN Err(InvalidBundleFormatWith(<<"Certificate chain is empty">>))
    ELSE LET decoded == DecodeCertificates(cert_chain.certificates, 1, <<>>)
         IN  IF ~decoded.ok THEN decoded
             ELSE LET der_certs == decoded.val[1]
                      n == Len(der_certs)
                  IN  IF n = 1
                      THEN Ok(CertificateChain(der_certs[1], <<>>, der_certs[1]))
                      ELSE IF n = 2
                      THEN Ok(CertificateChain(der_certs[1], <<>>, der_certs[2]))
                      ELSE Ok(CertificateChain(der_certs[1], SubSeq(der_certs, 2, n - 1),
                                               der_certs[n]))

\* if timestamp < start { continue }
NotYetValid_inclusive(timestamp, start) == timestamp <= start
NotYetValid(timestamp, start) == timestamp < start

\* if timestamp > end { continue }
Expired(timestamp, end) == timestamp > end

\* Some((_, best_start)) if start > best_start
ReplacesBest_onTie(start, best_start) == start >= best_start
ReplacesBest(start, best_start) == start > best_start

\* the authorities that the two nested loops visit, in the order of the visit
RECURSIVE AuthoritiesOf(_, _, _)
AuthoritiesOf(roots, k, list) ==
    IF k > Len(roots) THEN <<>>
    ELSE roots[k][list] \o AuthoritiesOf(roots, k + 1, list)

\* the loop body of both selectors, from authority k on
RECURSIVE ScanAuthorities(_, _, _, _, _)
ScanAuthorities(authorities, k, expected_domain, timestamp, best_match) ==
    IF k > Len(authorities) THEN Ok(best_match)
    ELSE
    LET ca == authorities[k]
        skip == ScanAuthorities(authorities, k + 1, expected_domain, timestamp, best_match)
    IN  IF ~Contains(ca.uri, expected_domain) THEN skip
        ELSE IF IsNone(ca.valid_for.start) THEN skip
        ELSE
        LET start == parse_rfc3339_timestamp(Unwrap(ca.valid_for.start))
        IN  IF ~start.ok THEN start
            ELSE IF NotYetValid(timestamp, start.val[1]) THEN skip
            ELSE
            LET end == IF IsSome(ca.valid_for.end)
                       THEN parse_rfc3339_timestamp(Unwrap(ca.valid_for.end))
                       ELSE Ok(timestamp)
            IN  IF ~end.ok THEN end
                ELSE IF IsSome(ca.valid_for.end) /\ Expired(timestamp, end.val[1]) THEN skip
                ELSE IF \/ IsNone(best_match)
                        \/ ReplacesBest(start.val[1], Unwrap(best_match).start)
                THEN ScanAuthorities(authorities, k + 1, expected_domain, timestamp,
                                     Some([cert_chain |-> ca.cert_chain,
                                           start |-> start.val[1]]))
                ELSE skip

select_certificate_authority(roots, instance, timestamp) ==
    LET best_match == ScanAuthorities(AuthoritiesOf(roots, 1, "certificate_authorities"), 1,
                                      ExpectedCaDomain(instance), timestamp, None)
    IN  IF ~best_match.ok THEN best_match
        ELSE IF IsSome(best_match.val[1])
        THEN extract_cert_chain_from_authority(Unwrap(best_match.val[1]).cert_chain)
        ELSE Err(InvalidBundleFormatWith(
                 <<"No valid certificate authority found for instance", instance,
                   "at timestamp", timestamp>>))

select_timestamp_authority(roots, instance, timestamp) ==
    LET best_match == ScanAuthorities(AuthoritiesOf(roots, 1, "timestamp_authorities"), 1,
                                      ExpectedTsaDomain(instance), timestamp, None)
    IN  IF ~best_match.ok THEN best_match
        ELSE IF IsSome(best_match.val[1])
        THEN extract_tsa_cert_chain_from_authority(Unwrap(best_match.val[1]).cert_chain)
        ELSE Err(InvalidBundleFormatWith(
                 <<"No valid timestamp authority found for instance", instance,
                   "at timestamp", timestamp>>))

----------------------------------------------------------------------------
(* The state of a component that is not running *)

SigstoreBundle(media_type, tvd, certificate, tlog, envelope) ==
    [media_type |-> media_type,
     verification_material |->
        [timestamp_verification_data |-> tvd,
         certificate |-> [raw_bytes |-> certificate],
         tlog_entries |-> tlog],
     dsse_envelope |-> envelope]

BundleMediaType == "application/vnd.dev.sigstore.bundle.v0.3+json"

\* a bundle of which only the timestamp material matters
TimeBundle(tvd, tlog) ==
    SigstoreBundle(BundleMediaType, tvd, B64Bad, tlog,
                   DsseEnvelope(B64Bad, "", <<[sig |-> B64Bad]>>))

IdleBundle == bundle = TimeBundle(None, None)
IdleTime == signing_time_res = None /\ bundle_ts_res = None
IdleTlog == skip_verification = FALSE /\ tlog_res = None
IdleCall == call = [fn |-> "none"] /\ ret = None
IdleVerify ==
    /\ options = VerificationOptions(None, FALSE)
    /\ trust_bundle = CertificateChain(<<>>, <<>>, GarbageCert)
    /\ pc = "idle" /\ ran = <<>> /\ frame = <<>> /\ result = None

----------------------------------------------------------------------------
(* Inputs of the Merkle specification *)

\* arbitrary hash values: leaf hashes, and parents of leaf 0 with each of them
HashPool ==
    LET L == {compute_leaf_hash(d) : d \in 0..(PoolLeaves - 1)}
        z == compute_leaf_hash(0)
    IN  L \cup {HashParent(z, b) : b \in L} \cup {HashParent(a, z) : a \in L}

\* a value that is the hash of nothing the model builds
JunkHash == sha256(<<2>>)

InitMerkleCanonical ==
    \E n \in 1..MaxTree : \E i \in 0..(n - 1) :
        /\ leaf_hash = compute_leaf_hash(i)
        /\ log_index = i
        /\ tree_size = n
        /\ proof_hashes = PATH(i, 0, n)
        /\ root_hash = MTH(0, n)
        /\ origin = "canonical"

InitMerkleArbitrary ==
    /\ leaf_hash \in HashPool
    /\ log_index \in 0..MaxIndex
    /\ tree_size \in 0..MaxIndex
    /\ proof_hashes \in SeqsUpTo(HashPool, MaxProof)
    /\ root_hash \in HashPool
    /\ origin = "arbitrary"

IdleMerkle ==
    /\ leaf_hash = JunkHash /\ log_index = 0 /\ tree_size = 0
    /\ proof_hashes = <<>> /\ root_hash = JunkHash
    /\ merkle_res = None /\ origin = "idle" /\ tamper = "none"

InitMerkle ==
    /\ InitMerkleCanonical \/ InitMerkleArbitrary
    /\ merkle_res = None
    /\ tamper = "none"
    /\ IdleBundle /\ IdleTime /\ IdleTlog /\ IdleVerify /\ IdleCall

\* the call returns
VerifyInclusionProof ==
    /\ IsNone(merkle_res)
    /\ merkle_res' = Some(verify_inclusion_proof(leaf_hash, log_index, tree_size,
                                                 proof_hashes, root_hash))
    /\ UNCHANGED <<leaf_hash, log_index, tree_size, proof_hashes, root_hash,
                   origin, tamper>>
    /\ UNCHANGED not_merkle

Accepted == IsSome(merkle_res) /\ Unwrap(merkle_res).res = MerkleOk

\* after an accepted call: change exactly one argument and call again
TamperProofHash ==
    /\ Accepted /\ tamper = "none"
    /\ \E k \in 1..Len(proof_hashes) : \E x \in (HashPool \cup {JunkHash}) \ {proof_hashes[k]} :
           proof_hashes' = [proof_hashes EXCEPT ![k] = x]
    /\ tamper' = "proof" /\ merkle_res' = None
    /\ UNCHANGED <<leaf_hash, log_index, tree_size, root_hash, origin>>
    /\ UNCHANGED not_merkle

TamperLeaf ==
    /\ Accepted /\ tamper = "none"
    /\ \E x \in (HashPool \cup {JunkHash}) \ {leaf_hash} : leaf_hash' = x
    /\ tamper' = "leaf" /\ merkle_res' = None
    /\ UNCHANGED <<proof_hashes, log_index, tree_size, root_hash, origin>>
    /\ UNCHANGED not_merkle

TamperRoot ==
    /\ Accepted /\ tamper = "none"
    /\ \E x \in (HashPool \cup {JunkHash}) \ {root_hash} : root_hash' = x
    /\ tamper' = "root" /\ merkle_res' = None
    /\ UNCHANGED <<proof_hashes, log_index, tree_size, leaf_hash, origin>>
    /\ UNCHANGED not_merkle

TamperIndex ==
    /\ Accepted /\ tamper = "none"
    /\ \E x \in (0..(MaxTree + 1)) \ {log_index} : log_index' = x
    /\ tamper' = "index" /\ merkle_res' = None
    /\ UNCHANGED <<proof_hashes, leaf_hash, tree_size, root_hash, origin>>
    /\ UNCHANGED not_merkle

TamperSize ==
    /\ Accepted /\ tamper = "none"
    /\ \E x \in (0..(MaxTree + 1)) \ {tree_size} : tree_size' = x
    /\ tamper' = "size" /\ merkle_res' = None
    /\ UNCHANGED <<proof_hashes, leaf_hash, log_index, root_hash, origin>>
    /\ UNCHANGED not_merkle

NextMerkle ==
    \/ VerifyInclusionProof
    \/ TamperProofHash
    \/ TamperLeaf
    \/ TamperRoot
    \/ TamperIndex
    \/ TamperSize

SpecMerkle == InitMerkle /\ [][NextMerkle]_vars

MerkleReturned == IsSome(merkle_res)
MerkleResult == Unwrap(merkle_res).res

\* C3: for every leaf i of a canonical RFC 6962 tree of size n (0 <= i < n),
\* the standard audit path makes verify_inclusion_proof(leaf_hash, i, n, path,
\* root) return Ok.
C3_AuditPathVerifies ==
    (origin = "canonical" /\ tamper = "none" /\ MerkleReturned)
        => MerkleResult = MerkleOk

\* a last leaf without a sibling, in a tree that is not a power of two
C3_Witness ==
    /\ origin = "canonical" /\ tamper = "none" /\ MerkleReturned
    /\ tree_size = 5 /\ log_index = 4 /\ Len(proof_hashes) = 1
    /\ MerkleResult = MerkleOk

\* C4: starting from arguments that verify_inclusion_proof accepts, changing
\* any single one of them (a proof hash, the leaf, the index, the size or the
\* root) makes verify_inclusion_proof fail with InclusionProofFailed.
C4_AnySingleChangeRejected ==
    (tamper # "none" /\ MerkleReturned) => MerkleResult = InclusionProofFailed

\* C5: for all log_index >= tree_size verify_inclusion_proof returns
\* InclusionProofFailed whatever the other arguments are, before any proof
\* hash is read or hashed.
C5_OutOfBoundsRejectedUnread ==
    (MerkleReturned /\ log_index >= tree_size)
        => /\ MerkleResult = InclusionProofFailed
           /\ Unwrap(merkle_res).hashed = 0

\* an out-of-bounds call that carries a proof hash
C5_Witness ==
    /\ MerkleReturned /\ log_index >= tree_size
    /\ Len(proof_hashes) > 0 /\ tree_size > 0
    /\ MerkleResult = InclusionProofFailed

----------------------------------------------------------------------------
(* Signing-time resolution: get_signing_time and extract_bundle_timestamp  *)
(* on the same bundle                                                      *)

TimeChars == {"1", "2", "-", "+", "x"}
\* the integrated_time of scenario S3
S3Time == <<"1", "7", "3", "2", "0", "6", "8", "3", "7", "3">>
IntegratedTimes == SeqsUpTo(TimeChars, MaxTimeLen) \cup {S3Time}
LaterTimes == {<<"1">>, <<"x">>}

TimeEntry(t) == TransparencyLogEntry(t, None, None, B64Of(0))

SignedTimestamps == {B64Bad, B64Of(GarbageDer), B64Of(TstDer(1)), B64Of(TstDer(2))}

TimestampDataChoices ==
    {None, Some(TimestampVerificationData(None))}
    \cup {Some(TimestampVerificationData(Some([i \in 1..Len(l) |-> Rfc3161Timestamp(l[i])]))) :
            l \in SeqsUpTo(SignedTimestamps, MaxTokens)}

TimeTlogChoices ==
    {None, Some(<<>>)}
    \cup {Some(<<TimeEntry(t)>> \o [i \in 1..Len(l) |-> TimeEntry(l[i])]) :
            t \in IntegratedTimes, l \in SeqsUpTo(LaterTimes, MaxEntries - 1)}

InitTime ==
    /\ \E tvd \in TimestampDataChoices : \E tlog \in TimeTlogChoices :
           bundle = TimeBundle(tvd, tlog)
    /\ IdleTime
    /\ IdleMerkle /\ IdleTlog /\ IdleVerify /\ IdleCall

GetSigningTime ==
    /\ IsNone(signing_time_res)
    /\ signing_time_res' = Some(get_signing_time(bundle))
    /\ UNCHANGED <<bundle, bundle_ts_res>>
    /\ UNCHANGED not_time

ExtractBundleTimestamp ==
    /\ IsNone(bundle_ts_res)
    /\ bundle_ts_res' = Some(extract_bundle_timestamp(bundle))
    /\ UNCHANGED <<bundle, signing_time_res>>
    /\ UNCHANGED not_time

NextTime ==
    \/ GetSigningTime
    \/ ExtractBundleTimestamp

SpecTime == InitTime /\ [][NextTime]_vars

----------------------------------------------------------------------------
(* verify_transparency_log on arbitrary first entries *)

IndexStrings == {<<"0">>, <<"1">>, <<"x">>}
SizeStrings == {<<"1">>, <<"2">>, <<"-", "1">>}
RootStrings ==
    {B64Bad, B64Of(compute_leaf_hash(0)),
     B64Of(HashParent(compute_leaf_hash(0), compute_leaf_hash(1))),
     B64Of(HashParent(compute_leaf_hash(1), compute_leaf_hash(0)))}
ProofHashStrings == {B64Bad, B64Of(compute_leaf_hash(0)), B64Of(compute_leaf_hash(1))}
BodyStrings == {B64Bad, B64Of(0), B64Of(1)}
PromiseChoices == {None, Some(InclusionPromise(B64Bad)), Some(InclusionPromise(B64Of(0)))}

ProofChoices ==
    {None} \cup
    {Some(InclusionProof(li, ts, root, hs)) :
        li \in IndexStrings, ts \in SizeStrings, root \in RootStrings,
        hs \in SeqsUpTo(ProofHashStrings, MaxProof)}

\* a proof that verifies for the body 0 in a tree of one leaf
GoodProof == InclusionProof(<<"0">>, <<"1">>, B64Of(compute_leaf_hash(0)), <<>>)
\* a proof whose root is not the root of the tree
BadProof == InclusionProof(<<"0">>, <<"1">>, B64Of(JunkHash), <<>>)

LaterEntries ==
    {TransparencyLogEntry(<<"1">>, None, None, B64Of(0)),
     TransparencyLogEntry(<<"1">>, Some(GoodProof), None, B64Of(0))}

TlogChoices ==
    {None, Some(<<>>)}
    \cup {Some(<<TransparencyLogEntry(<<"1">>, proof, promise, body)>> \o later) :
            proof \in ProofChoices, promise \in PromiseChoices, body \in BodyStrings,
            later \in SeqsUpTo(LaterEntries, MaxEntries - 1)}

InitTlog ==
    /\ \E tvd \in {None, Some(TimestampVerificationData(Some(<<Rfc3161Timestamp(B64Of(TstDer(1)))>>)))} :
       \E tlog \in TlogChoices :
           bundle = TimeBundle(tvd, tlog)
    /\ skip_verification \in BOOLEAN
    /\ tlog_res = None
    /\ IdleMerkle /\ IdleTime /\ IdleVerify /\ IdleCall

VerifyTransparencyLog ==
    /\ IsNone(tlog_res)
    /\ tlog_res' = Some(verify_transparency_log(bundle, skip_verification))
    /\ UNCHANGED <<bundle, skip_verification>>
    /\ UNCHANGED not_tlog

NextTlog ==
    \/ VerifyTransparencyLog

SpecTlog == InitTlog /\ [][NextTlog]_vars

----------------------------------------------------------------------------
(* verify_bundle_internal *)

RootCert == X509("root", "kRoot", "kRoot", 0, 9)
InterCert == X509("intermediate", "kInter", "kRoot", 0, 9)
LeafCert == X509("leaf", "kLeaf", "kInter", 1, 2)
LeafByRoot == X509("leaf", "kLeaf", "kRoot", 1, 2)
LeafByUnknown == X509("leaf", "kLeaf", "kOther", 1, 2)

\* text as bytes: "i", "j", "s", "e"
IssuerI == <<105>>
IssuerJ == <<106>>
SubjectS == <<115>>
SubjectE == <<101>>

\* the leaf of issuer "i" with the SAN (URI "s", email "e")
LeafWithIdentity ==
    WithIdentity(LeafCert,
                 <<GeneralName("URI", SubjectS), GeneralName("RFC822Name", SubjectE)>>,
                 <<X509Extension(OID_ISSUER, <<Utf8StringTag, 1>> \o IssuerI)>>)

LeafChoices ==
    {B64Bad, B64Of(LeafCert), B64Of(LeafByRoot), B64Of(LeafByUnknown),
     B64Of(LeafWithIdentity)}

\* (expected_issuer, expected_subject) of the options
ExpectedIdentityChoices ==
    {<<None, None>>, <<Some(IssuerI), None>>, <<Some(IssuerJ), None>>,
     <<None, Some(SubjectS)>>}

TrustChoices ==
    {CertificateChain(<<>>, <<InterCert>>, RootCert),
     CertificateChain(<<>>, <<>>, RootCert),
     CertificateChain(<<>>, <<InterCert>>, InterCert),
     CertificateChain(<<>>, <<GarbageCert>>, RootCert)}

PayloadType == "application/vnd.in-toto+json"

PayloadChoices ==
    {B64Bad,
     B64Of(StatementJson(<<Subject(None)>>)),
     B64Of(StatementJson(<<Subject(Some(HexOf("d1")))>>))}

\* signatures over the payload by the leaf key and by another key
SignatureChoices(payload) ==
    IF payload.b64
    THEN {B64Of(SignatureBytes("kLeaf", PAE(PayloadType, payload.bytes[1]))),
          B64Of(SignatureBytes("kOther", PAE(PayloadType, payload.bytes[1])))}
    ELSE {B64Bad}

VerifyTlogChoices ==
    {None}
    \cup {Some(<<TransparencyLogEntry(t, proof, None, B64Of(0))>>) :
            t \in {<<"1">>, <<"5">>, <<"x">>},
            proof \in {None, Some(GoodProof), Some(BadProof)}}

EmptyFrame ==
    [subject_digest |-> None, signing_time |-> None, chain |-> None,
     certificate_hashes |-> None]

InitVerify ==
    /\ \E payload \in PayloadChoices : \E sig \in SignatureChoices(payload) :
       \E tvd \in {None, Some(TimestampVerificationData(Some(<<Rfc3161Timestamp(B64Of(TstDer(2)))>>)))} :
       \E leaf \in LeafChoices : \E tlog \in VerifyTlogChoices :
           bundle = SigstoreBundle(BundleMediaType, tvd, leaf, tlog,
                                   DsseEnvelope(payload, PayloadType, <<[sig |-> sig]>>))
    /\ \E d \in {None, Some("d1"), Some("d2")} : \E r \in BOOLEAN :
       \E e \in ExpectedIdentityChoices :
           options = WithExpectedIdentity(VerificationOptions(d, r), e[1], e[2])
    /\ trust_bundle \in TrustChoices
    /\ pc = StepOrder[1] /\ ran = <<>> /\ frame = EmptyFrame /\ result = None
    /\ IdleMerkle /\ IdleTime /\ IdleTlog /\ IdleCall

\* `?` on an Err: the call ends with that error
Fail(e) == result' = Some(Err(e)) /\ pc' = "done" /\ UNCHANGED frame

Run(step) ==
    /\ pc = step
    /\ ran' = Append(ran, step)
    /\ UNCHANGED <<bundle, options, trust_bundle>>
    /\ UNCHANGED not_verify

\* Step 1: parse and verify subject digest
StepSubjectDigest ==
    /\ Run("subject_digest")
    /\ LET statement == parse_dsse_payload(bundle.dsse_envelope)
       IN  IF ~statement.ok THEN Fail(statement.err)
           ELSE LET subject_digest ==
                        verify_subject_digest(statement.val[1], options.expected_digest)
                IN  IF ~subject_digest.ok THEN Fail(subject_digest.err)
                    ELSE /\ frame' = [frame EXCEPT !.subject_digest = subject_digest.val]
                         /\ pc' = NextStep(pc)
                         /\ UNCHANGED result

\* Step 2: get signing time
StepSigningTime ==
    /\ Run("signing_time")
    /\ LET signing_time == get_signing_time(bundle)
       IN  IF ~signing_time.ok THEN Fail(signing_time.err)
           ELSE /\ frame' = [frame EXCEPT !.signing_time = signing_time.val]
                /\ pc' = NextStep(pc)
                /\ UNCHANGED result

\* Step 3: verify certificate chain and get hashes
StepCertificateChain ==
    /\ Run("certificate_chain")
    /\ LET r == verify_certificate_chain(bundle, trust_bundle)
       IN  IF ~r.ok THEN Fail(r.err)
           ELSE /\ frame' = [frame EXCEPT !.chain = Some(r.val[1].chain),
                                           !.certificate_hashes = Some(r.val[1].hashes)]
                /\ pc' = NextStep(pc)
                /\ UNCHANGED result

\* Step 3b: verify signing time is within certificate validity period
StepValidity ==
    /\ Run("validity")
    /\ LET leaf_cert == parse_der_certificate(Unwrap(frame.chain).leaf)
       IN  IF ~leaf_cert.ok THEN Fail(InvalidBundleFormat)
           ELSE LET r == verify_signing_time_in_validity(Unwrap(frame.signing_time),
                                                         leaf_cert.val[1])
                IN  IF ~r.ok THEN Fail(r.err)
                    ELSE pc' = NextStep(pc) /\ UNCHANGED <<frame, result>>

\* Step 4: verify DSSE signature
StepDsseSignature ==
    /\ Run("dsse_signature")
    /\ LET r == verify_dsse_signature(bundle.dsse_envelope, Unwrap(frame.chain))
       IN  IF ~r.ok THEN Fail(r.err)
           ELSE pc' = NextStep(pc) /\ UNCHANGED <<frame, result>>

\* Step 5: verify transparency log (if enabled)
StepTransparencyLog ==
    /\ Run("transparency_log")
    /\ LET r == verify_transparency_log(bundle, SkipRekor(options))
       IN  IF ~r.ok THEN Fail(r.err)
           ELSE pc' = NextStep(pc) /\ UNCHANGED <<frame, result>>

\* Ok(VerificationResult { .. })
Return ==
    /\ pc = "return"
    /\ result' = Some(Ok(VerificationResult(Unwrap(frame.certificate_hashes),
                                            Unwrap(frame.signing_time),
                                            Unwrap(frame.subject_digest),
                                            None)))
    /\ pc' = "done"
    /\ UNCHANGED <<bundle, options, trust_bundle, ran, frame>>
    /\ UNCHANGED not_verify

NextVerify ==
    \/ StepSubjectDigest
    \/ StepSigningTime
    \/ StepCertificateChain
    \/ StepValidity
    \/ StepDsseSignature
    \/ StepTransparencyLog
    \/ Return

SpecVerify == InitVerify /\ [][NextVerify]_vars

----------------------------------------------------------------------------
(* One call of a function on arguments drawn from bounded sets *)

NotCalled == IsNone(ret)
Returned(f) == call.fn = f /\ IsSome(ret)

\* the call returns the value v
Return_(v) == ret' = Some(v) /\ UNCHANGED call /\ UNCHANGED not_call

IdleRest == IdleMerkle /\ IdleBundle /\ IdleTime /\ IdleTlog /\ IdleVerify

----------------------------------------------------------------------------
(* verify_signing_time_in_validity *)

Seconds == 0..MaxTime

InitValidity ==
    /\ \E t \in Seconds : \E nb \in Seconds : \E na \in Seconds :
           call = [fn |-> "verify_signing_time_in_validity",
                   signing_time |-> t,
                   cert |-> X509("leaf", "kLeaf", "kInter", nb, na)]
    /\ ret = None
    /\ IdleRest

VerifySigningTimeInValidity ==
    /\ NotCalled
    /\ call.fn = "verify_signing_time_in_validity"
    /\ Return_(verify_signing_time_in_validity(call.signing_time, call.cert))

NextValidity ==
    \/ VerifySigningTimeInValidity

SpecValidity == InitValidity /\ [][NextValidity]_vars

----------------------------------------------------------------------------
(* verify_certificate_chain *)

\* a second intermediate, issued by the first one
Inter2Cert == X509("intermediate2", "kInter2", "kInter", 0, 9)
\* another self-signed certificate of the root key
RootTwin == X509("twin", "kRoot", "kRoot", 0, 9)
LeafByInter2 == X509("leaf", "kLeaf", "kInter2", 1, 2)

ChainLeafChoices ==
    {B64Bad, B64Of(GarbageCert), B64Of(LeafCert), B64Of(LeafByRoot),
     B64Of(LeafByInter2), B64Of(LeafByUnknown)}

IntermediatePool == {InterCert, Inter2Cert, RootCert, RootTwin, GarbageCert}

ChainRootChoices == {RootCert, InterCert, GarbageCert}

\* a bundle of which only the certificate matters
CertBundle(leaf) ==
    SigstoreBundle(BundleMediaType, None, leaf, None,
                   DsseEnvelope(B64Bad, "", <<[sig |-> B64Bad]>>))

InitChain ==
    /\ \E leaf \in ChainLeafChoices :
       \E ints \in SeqsUpTo(IntermediatePool, MaxIntermediates) :
       \E root \in ChainRootChoices :
           call = [fn |-> "verify_certificate_chain",
                   bundle |-> CertBundle(leaf),
                   trust_bundle |-> CertificateChain(<<>>, ints, root)]
    /\ ret = None
    /\ IdleRest

VerifyCertificateChain ==
    /\ NotCalled
    /\ call.fn = "verify_certificate_chain"
    /\ Return_(verify_certificate_chain(call.bundle, call.trust_bundle))

NextChain ==
    \/ VerifyCertificateChain

SpecChain == InitChain /\ [][NextChain]_vars

----------------------------------------------------------------------------
(* parser/bundle.rs: parse_bundle_from_bytes, parse_bundle_from_str,       *)
(* validate_bundle.  A media type is the sequence of its parts.            *)

MediaTypePrefix == <<"application/", "vnd.dev.sigstore.bundle">>

\* s.starts_with(prefix)
starts_with_equals(s, prefix) == s = prefix
starts_with(s, prefix) ==
    Len(s) >= Len(prefix) /\ SubSeq(s, 1, Len(prefix)) = prefix

validate_bundle(b) ==
    IF ~starts_with(b.media_type, MediaTypePrefix)
    THEN Err(InvalidBundleFormatWith(<<"Unsupported media type: ", b.media_type>>))
    ELSE IF Len(b.dsse_envelope.signatures) = 0
    THEN Err(InvalidBundleFormatWith(<<"No signatures in DSSE envelope">>))
    ELSE Ok("unit")

\* the JSON text of a bundle, and text that is no bundle
BundleJson(b) == [json |-> TRUE, bundle |-> <<b>>]
NotBundleJson == [json |-> FALSE, bundle |-> <<>>]

\* serde_json::Error as VerificationError
JsonError == InvalidBundleFormatWith(<<"serde_json">>)

parse_bundle_from_bytes(bytes) ==
    IF ~bytes.json THEN Err(JsonError)
    ELSE LET b == bytes.bundle[1]
             v == validate_bundle(b)
         IN  IF ~v.ok THEN v ELSE Ok(b)

parse_bundle_from_str(json) ==
    IF ~json.json THEN Err(JsonError)
    ELSE LET b == json.bundle[1]
             v == validate_bundle(b)
         IN  IF ~v.ok THEN v ELSE Ok(b)

MediaParts == {"application/", "vnd.dev.sigstore.bundle", ".v0.3+json", "invalid"}

\* a bundle of which only the media type and the signatures matter
MediaBundle(media_type, signatures) ==
    SigstoreBundle(media_type, None, B64Bad, None,
                   DsseEnvelope(B64Bad, "", signatures))

BundleTexts ==
    {NotBundleJson} \cup
    {BundleJson(MediaBundle(m, s)) :
        m \in SeqsUpTo(MediaParts, MaxMediaLen),
        s \in {<<>>, <<[sig |-> B64Bad]>>, <<[sig |-> B64Bad], [sig |-> B64Of(0)]>>}}

SubjectChoices ==
    {Subject(None), Subject(Some(HexBad)), Subject(Some(HexOf("d1"))),
     Subject(Some(HexOf("d2")))}

PayloadTexts ==
    {B64Bad, B64Of(NotJson)} \cup
    {B64Of(StatementJson(s)) : s \in SeqsUpTo(SubjectChoices, MaxSubjects)}

InitParse ==
    /\ \/ \E f \in {"parse_bundle_from_bytes", "parse_bundle_from_str"} :
          \E text \in BundleTexts :
              call = [fn |-> f, text |-> text]
       \/ \E payload \in PayloadTexts :
              call = [fn |-> "parse_dsse_payload",
                      envelope |-> DsseEnvelope(payload, PayloadType, <<[sig |-> B64Bad]>>)]
    /\ ret = None
    /\ IdleRest

ParseBundleFromBytes ==
    /\ NotCalled
    /\ call.fn = "parse_bundle_from_bytes"
    /\ Return_(parse_bundle_from_bytes(call.text))

ParseBundleFromStr ==
    /\ NotCalled
    /\ call.fn = "parse_bundle_from_str"
    /\ Return_(parse_bundle_from_str(call.text))

ParseDssePayload ==
    /\ NotCalled
    /\ call.fn = "parse_dsse_payload"
    /\ Return_(parse_dsse_payload(call.envelope))

NextParse ==
    \/ ParseBundleFromBytes
    \/ ParseBundleFromStr
    \/ ParseDssePayload

SpecParse == InitParse /\ [][NextParse]_vars

----------------------------------------------------------------------------
(* fetcher/jsonl/parser.rs: load_trusted_root_from_jsonl.  The content is  *)
(* a sequence of characters; the text of a JSON object is one character.   *)

Whitespace == {" ", "\r", "\t"}

\* the JSON texts of two trusted roots, and text that is no trusted root
RootTexts == {"{A}", "{B}"}
RootOfText(c) ==
    IF c = "{A}"
    THEN TrustedRoot(<<Authority(<<"https://", "fulcio.githubapp.com">>, CertChain(<<>>),
                                 ValidityPeriod(None, None))>>, <<>>)
    ELSE TrustedRoot(<<>>, <<>>)

ContentChars == {"\n", " ", "\r", "{A}", "{B}", "{"}

\* content.lines(): split at "\n", a "\r" before the "\n" belongs to the
\* line ending; no empty last line after a final "\n"
RECURSIVE lines(_, _, _)
lines(content, k, line) ==
    IF k > Len(content)
    THEN IF Len(line) = 0 THEN <<>> ELSE <<line>>
    ELSE IF content[k] = "\n"
    THEN <<IF Len(line) > 0 /\ line[Len(line)] = "\r"
           THEN SubSeq(line, 1, Len(line) - 1) ELSE line>>
         \o lines(content, k + 1, <<>>)
    ELSE lines(content, k + 1, Append(line, content[k]))

\* line.trim()
RECURSIVE trim_start(_)
trim_start(s) == IF Len(s) > 0 /\ s[1] \in Whitespace THEN trim_start(Tail(s)) ELSE s
RECURSIVE trim_end(_)
trim_end(s) ==
    IF Len(s) > 0 /\ s[Len(s)] \in Whitespace THEN trim_end(SubSeq(s, 1, Len(s) - 1))
    ELSE s
trim_not(s) == s
trim(s) == trim_end(trim_start(s))

\* serde_json::from_str::<TrustedRoot>: one JSON value, whitespace allowed
\* around it
TrustedRoot_from_str(s) ==
    LET v == trim_end(trim_start(s))
    IN  IF Len(v) = 1 /\ v[1] \in RootTexts THEN Ok(RootOfText(v[1]))
        ELSE Err(InvalidBundleFormatWith(<<"serde_json">>))

\* for (line_num, line) in content.lines().enumerate()
RECURSIVE LoadLines(_, _, _)
LoadLines(ls, line_num, roots) ==
    IF line_num >= Len(ls) THEN Ok(roots)
    ELSE LET line == trim(ls[line_num + 1])
         IN  IF Len(line) = 0 THEN LoadLines(ls, line_num + 1, roots)
             ELSE LET root == TrustedRoot_from_str(line)
                  IN  IF ~root.ok
                      THEN Err(InvalidBundleFormatWith(
                               <<"Failed to parse JSONL line", line_num + 1>>))
                      ELSE LoadLines(ls, line_num + 1, Append(roots, root.val[1]))

load_trusted_root_from_jsonl(content) ==
    LET roots == LoadLines(lines(content, 1, <<>>), 0, <<>>)
    IN  IF ~roots.ok THEN roots
        ELSE IF Len(roots.val[1]) = 0
        THEN Err(InvalidBundleFormatWith(<<"No trust bundles found in JSONL content">>))
        ELSE roots

InitJsonl ==
    /\ \E content \in SeqsUpTo(ContentChars, MaxContent) :
           call = [fn |-> "load_trusted_root_from_jsonl", content |-> content]
    /\ ret = None
    /\ IdleRest

LoadTrustedRootFromJsonl ==
    /\ NotCalled
    /\ call.fn = "load_trusted_root_from_jsonl"
    /\ Return_(load_trusted_root_from_jsonl(call.content))

NextJsonl ==
    \/ LoadTrustedRootFromJsonl

SpecJsonl == InitJsonl /\ [][NextJsonl]_vars

----------------------------------------------------------------------------
(* fetcher/trust_bundle.rs.  A PEM text is the sequence of its blocks; a   *)
(* response is what reqwest::blocking::get and Response::text deliver.     *)

TrustBundleFetch == "CertificateError::TrustBundleFetch"

PemBlock(tag, contents) == [framed |-> TRUE, tag |-> tag, contents |-> contents]
\* a block whose framing or base64 the pem crate rejects
PemMalformed == [framed |-> FALSE, tag |-> "", contents |-> <<>>]

TrustBundle(chains) == [chains |-> chains]

\* parser/certificate.rs: pem::parse reads the first block of the text
parse_pem_certificate(pem_str) ==
    IF Len(pem_str) = 0 \/ ~pem_str[1].framed THEN Err(ParseError)
    ELSE IF pem_str[1].tag # "CERTIFICATE" THEN Err(ParseError)
    ELSE Ok(pem_str[1].contents)

\* for pem_cert in &chain.certificates { parse_pem_certificate(pem_cert)? }
RECURSIVE ParseCertificates(_, _, _)
ParseCertificates(certificates, k, der_certs) ==
    IF k > Len(certificates) THEN Ok(der_certs)
    ELSE LET der == parse_pem_certificate(certificates[k])
         IN  IF ~der.ok THEN der
             ELSE ParseCertificates(certificates, k + 1, Append(der_certs, der.val[1]))

\* pem::parse_many, then the blocks tagged CERTIFICATE
parse_pem_chain(pem_data) ==
    IF \E k \in 1..Len(pem_data) : ~pem_data[k].framed THEN Err(TrustBundleFetch)
    ELSE LET blocks == SelectSeq(pem_data, LAMBDA block : block.tag = "CERTIFICATE")
             der_certs == [k \in 1..Len(blocks) |-> blocks[k].contents]
             n == Len(der_certs)
         IN  IF n = 0 THEN Err(TrustBundleFetch)
             ELSE IF n < 2 THEN Err(TrustBundleFetch)
             ELSE Ok(CertificateChain(der_certs[1], SubSeq(der_certs, 2, n - 1),
                                      der_certs[n]))

\* bodies: PEM text (starts with "-----BEGIN"), the JSON text of a
\* TrustBundle, any other text
PemBody(blocks) == [format |-> "pem", blocks |-> blocks]
JsonBody(chains) == [format |-> "json", bundle |-> TrustBundle(chains)]
OtherBody == [format |-> "other"]

Response(status, body) == [status |-> status, body |-> body]
\* get(url) failed
NoResponse == Response(0, None)

fetch_trust_bundle_from_url(response) ==
    IF response = NoResponse THEN Err(TrustBundleFetch)
    ELSE IF ~(response.status \in 200..299) THEN Err(TrustBundleFetch)
    ELSE IF IsNone(response.body) THEN Err(TrustBundleFetch)
    ELSE LET body == Unwrap(response.body)
         IN  IF body.format = "pem" THEN parse_pem_chain(body.blocks)
             ELSE IF body.format # "json" THEN Err(TrustBundleFetch)
             ELSE IF Len(body.bundle.chains) = 0 THEN Err(TrustBundleFetch)
             ELSE LET chain == body.bundle.chains[1]
                  IN  IF Len(chain.certificates) = 0 THEN Err(TrustBundleFetch)
                      ELSE LET parsed == ParseCertificates(chain.certificates, 1, <<>>)
                           IN  IF ~parsed.ok THEN parsed
                               ELSE LET der_certs == parsed.val[1]
                                        n == Len(der_certs)
                                    IN  IF n < 2 THEN Err(TrustBundleFetch)
                                        ELSE Ok(CertificateChain(
                                                 <<>>, SubSeq(der_certs, 1, n - 1),
                                                 der_certs[n]))

\* what a server can answer
ServedBlocks ==
    {PemBlock("CERTIFICATE", <<"der0">>), PemBlock("CERTIFICATE", <<"der1">>),
     PemBlock("PUBLIC KEY", <<"key">>), PemMalformed}
ServedPems == {<<b>> : b \in ServedBlocks} \cup {<<>>}
Bodies ==
    {PemBody(blocks) : blocks \in SeqsUpTo(ServedBlocks, MaxBlocks) \ {<<>>}}
    \cup {JsonBody(<<>>)}
    \cup {JsonBody(<<CertChain(c)>> \o rest) :
             c \in SeqsUpTo(ServedPems \ {<<PemBlock("PUBLIC KEY", <<"key">>)>>}, MaxBlocks),
             rest \in {<<>>, <<CertChain(<<>>)>>}}
    \cup {OtherBody}
Responses ==
    {NoResponse, Response(200, None), Response(404, Some(OtherBody))}
    \cup {Response(200, Some(body)) : body \in Bodies}

InitFetch ==
    /\ \E response \in Responses :
           call = [fn |-> "fetch_trust_bundle_from_url", response |-> response]
    /\ ret = None
    /\ IdleRest

FetchTrustBundleFromUrl ==
    /\ NotCalled
    /\ call.fn = "fetch_trust_bundle_from_url"
    /\ Return_(fetch_trust_bundle_from_url(call.response))

NextFetch ==
    \/ FetchTrustBundleFromUrl

SpecFetch == InitFetch /\ [][NextFetch]_vars

----------------------------------------------------------------------------
(* select_certificate_authority, select_timestamp_authority *)

\* valid_for windows: no start, malformed start or end, open and closed
\* windows, and two spellings of the start 2
Windows ==
    {ValidityPeriod(None, Some(Rfc3339(3, 0))),
     ValidityPeriod(Some(Rfc3339Bad), None),
     ValidityPeriod(Some(Rfc3339(1, 0)), None),
     ValidityPeriod(Some(Rfc3339(1, 0)), Some(Rfc3339(3, 0))),
     ValidityPeriod(Some(Rfc3339(1, 0)), Some(Rfc3339Bad)),
     ValidityPeriod(Some(Rfc3339(2, 0)), None),
     ValidityPeriod(Some(Rfc3339(3, 1)), Some(Rfc3339(3, 0)))}

CaUri(instance) ==
    IF instance = "GitHub" THEN <<"https://", "fulcio.githubapp.com">>
    ELSE <<"https://", "fulcio.sigstore.dev">>

TsaUri(instance) ==
    IF instance = "GitHub"
    THEN <<"https://", "timestamp.githubapp.com", "/api/v1/timestamp">>
    ELSE <<"https://", "timestamp.sigstore.dev", "/api/v1/timestamp">>

\* the chain of the k-th authority: k certificates that no other chain
\* holds, or no certificate at all when the chain is the empty one
ChainOfAuthority(k, empty) ==
    IF k = empty THEN CertChain(<<>>)
    ELSE CertChain([i \in 1..k |-> [raw_bytes |-> B64Of(<<"der", k, i>>)]])

\* the trusted root that holds the authorities lo..hi of the shapes, once as
\* certificate authorities and once as timestamp authorities
RootOfShapes(shapes, lo, hi, empty) ==
    TrustedRoot(
        [i \in 1..(hi - lo + 1) |->
            Authority(CaUri(shapes[lo + i - 1][1]), ChainOfAuthority(lo + i - 1, empty),
                      shapes[lo + i - 1][2])],
        [i \in 1..(hi - lo + 1) |->
            Authority(TsaUri(shapes[lo + i - 1][1]), ChainOfAuthority(lo + i - 1, empty),
                      shapes[lo + i - 1][2])])

Selectors == {"select_certificate_authority", "select_timestamp_authority"}

InitSelect ==
    /\ \E n \in 0..MaxAuthorities :
       \E shapes \in [1..n -> FulcioInstances \X Windows] :
       \E split \in {0, 1} \cap (0..n) :
       \E empty \in {0, 1} \cap (0..n) :
       \E f \in Selectors : \E instance \in FulcioInstances : \E timestamp \in Seconds :
           call = [fn |-> f,
                   roots |-> <<RootOfShapes(shapes, 1, split, empty),
                               RootOfShapes(shapes, split + 1, n, empty)>>,
                   instance |-> instance,
                   timestamp |-> timestamp]
    /\ ret = None
    /\ IdleRest

SelectCertificateAuthority ==
    /\ NotCalled
    /\ call.fn = "select_certificate_authority"
    /\ Return_(select_certificate_authority(call.roots, call.instance, call.timestamp))

SelectTimestampAuthority ==
    /\ NotCalled
    /\ call.fn = "select_timestamp_authority"
    /\ Return_(select_timestamp_authority(call.roots, call.instance, call.timestamp))

NextSelect ==
    \/ SelectCertificateAuthority
    \/ SelectTimestampAuthority

SpecSelect == InitSelect /\ [][NextSelect]_vars

----------------------------------------------------------------------------
(* The selectors on one authority that covers the timestamp: the chain     *)
(* that they return for every certificate list                             *)

AuthorityCerts ==
    {[raw_bytes |-> B64Of(<<"der", i>>)] : i \in 0..2} \cup {[raw_bytes |-> B64Bad]}

\* a trusted root of one certificate authority and one timestamp authority
\* of GitHub, valid from second 1 on, with the given certificates
RootOfCerts(certificates) ==
    TrustedRoot(
        <<Authority(CaUri("GitHub"), CertChain(certificates),
                    ValidityPeriod(Some(Rfc3339(1, 0)), None))>>,
        <<Authority(TsaUri("GitHub"), CertChain(certificates),
                    ValidityPeriod(Some(Rfc3339(1, 0)), None))>>)

InitAuthorityChain ==
    /\ \E certificates \in SeqsUpTo(AuthorityCerts, MaxCerts) :
       \E f \in Selectors :
           call = [fn |-> f,
                   roots |-> <<RootOfCerts(certificates)>>,
                   instance |-> "GitHub",
                   timestamp |-> 2]
    /\ ret = None
    /\ IdleRest

SpecAuthorityChain == InitAuthorityChain /\ [][NextSelect]_vars

----------------------------------------------------------------------------
(* parser/identity.rs: extract_oidc_identity on every SAN of the model,    *)
(* extract_string_from_extension on every extension value of the model     *)

\* text as bytes: two email addresses, two URIs, a DNS name
SanNames ==
    {GeneralName("RFC822Name", <<101>>), GeneralName("RFC822Name", <<102>>),
     GeneralName("URI", <<115>>), GeneralName("URI", <<116>>),
     GeneralName("DNSName", <<100>>)}

\* the three string tags, small lengths that are also ASCII control
\* characters, a letter, and a byte that no UTF-8 text holds
ValueBytes ==
    {Utf8StringTag, Ia5StringTag, PrintableStringTag, 0, 1, 2, 97, 255}

InitIdentity ==
    /\ \/ \E names \in SeqsUpTo(SanNames, MaxNames) :
             call = [fn |-> "extract_oidc_identity",
                     cert |-> WithIdentity(LeafCert, names, <<>>)]
       \/ call = [fn |-> "extract_oidc_identity", cert |-> LeafCert]
       \/ \E value \in SeqsUpTo(ValueBytes, MaxValueLen) :
             call = [fn |-> "extract_string_from_extension",
                     ext |-> X509Extension(OID_ISSUER, value)]
    /\ ret = None
    /\ IdleRest

ExtractOidcIdentity ==
    /\ NotCalled
    /\ call.fn = "extract_oidc_identity"
    /\ Return_(extract_oidc_identity(call.cert))

ExtractStringFromExtension ==
    /\ NotCalled
    /\ call.fn = "extract_string_from_extension"
    /\ Return_(extract_string_from_extension(call.ext))

NextIdentity ==
    \/ ExtractOidcIdentity
    \/ ExtractStringFromExtension

SpecIdentity == InitIdentity /\ [][NextIdentity]_vars

----------------------------------------------------------------------------
(* Claims *)

HasTlogEntry(b) ==
    /\ IsSome(b.verification_material.tlog_entries)
    /\ Len(Unwrap(b.verification_material.tlog_entries)) > 0

TlogEntries(b) == Unwrap(b.verification_material.tlog_entries)

\* what each step of verify_bundle returns on the inputs of the call, taken
\* alone; a step whose arguments do not exist (an earlier step failed) counts
\* as not passed
StepOutcome(step) ==
    LET statement == parse_dsse_payload(bundle.dsse_envelope)
        time == get_signing_time(bundle)
        chain == verify_certificate_chain(bundle, trust_bundle)
    IN  CASE step = "subject_digest" ->
                IF ~statement.ok THEN statement
                ELSE verify_subject_digest(statement.val[1], options.expected_digest)
          [] step = "signing_time" -> time
          [] step = "certificate_chain" -> chain
          [] step = "validity" ->
                IF ~time.ok \/ ~chain.ok THEN Err("not reached")
                ELSE verify_signing_time_in_validity(time.val[1], chain.val[1].chain.leaf)
          [] step = "dsse_signature" ->
                IF ~chain.ok THEN Err("not reached")
                ELSE verify_dsse_signature(bundle.dsse_envelope, chain.val[1].chain)
          [] step = "transparency_log" ->
                IF options.verify_rekor THEN verify_transparency_log(bundle, FALSE)
                ELSE Ok("unit")

\* the order of the steps that the claims state
ClaimedOrder ==
    <<"subject_digest", "signing_time", "certificate_chain", "validity",
      "dsse_signature", "transparency_log">>

VerifyEnded == pc = "done" /\ IsSome(result)

\* C1: verify_bundle returns a VerificationResult only if every step ran and
\* succeeded (subject digest, signing time, certificate chain, leaf validity,
\* DSSE signature and, with verify_rekor, the transparency log); if any step
\* returns an error, the call returns an error and no VerificationResult.
C1_ResultOnlyIfEveryStepPassed ==
    VerifyEnded =>
        /\ Unwrap(result).ok =>
              /\ \A k \in 1..Len(ClaimedOrder) : StepOutcome(ClaimedOrder[k]).ok
              /\ \A k \in 1..Len(ClaimedOrder) : \E j \in 1..Len(ran) : ran[j] = ClaimedOrder[k]
        /\ (\E k \in 1..Len(ClaimedOrder) : ~StepOutcome(ClaimedOrder[k]).ok)
              => (~Unwrap(result).ok /\ IsNone(Unwrap(result).val))

\* a successful verification with the transparency-log check enabled
C1_Witness ==
    /\ VerifyEnded /\ Unwrap(result).ok /\ options.verify_rekor
    /\ IsSome(Unwrap(bundle.verification_material.tlog_entries)[1].inclusion_proof)

\* C2: the steps run in one fixed order (subject digest, signing time,
\* certificate chain, leaf validity, DSSE signature, transparency log), and
\* when several steps fail on the same input the call ends with the error of
\* the earliest failing step in this order.
C2_EarliestFailingStepWins ==
    /\ \E k \in 0..Len(ClaimedOrder) : ran = SubSeq(ClaimedOrder, 1, k)
    /\ VerifyEnded =>
          LET failing == {k \in 1..Len(ClaimedOrder) : ~StepOutcome(ClaimedOrder[k]).ok}
          IN  IF failing = {} THEN Unwrap(result).ok /\ ran = ClaimedOrder
              ELSE LET first == CHOOSE k \in failing : \A j \in failing : k <= j
                   IN  /\ ran = SubSeq(ClaimedOrder, 1, first)
                       /\ Unwrap(result) = Err(StepOutcome(ClaimedOrder[first]).err)

\* no timestamp and a chain that does not verify: NoTimestamp is returned
C2_Witness ==
    /\ VerifyEnded
    /\ StepOutcome("subject_digest").ok
    /\ StepOutcome("signing_time") = Err(NoTimestamp)
    /\ StepOutcome("certificate_chain") = Err(ChainVerificationFailed)
    /\ Unwrap(result) = Err(NoTimestamp)

\* C6: without skip_verification, verify_transparency_log succeeds only if
\* the first entry carries an inclusion proof and the proof verifies against
\* the entry's leaf hash; an entry without an inclusion proof is never
\* accepted, also when an RFC 3161 timestamp is present.
C6_AcceptedOnlyWithVerifiedProof ==
    (IsSome(tlog_res) /\ ~skip_verification /\ Unwrap(tlog_res).ok)
        => /\ HasTlogEntry(bundle)
           /\ IsSome(TlogEntries(bundle)[1].inclusion_proof)
           /\ VerifyEntryInclusionProof(TlogEntries(bundle)[1],
                                        Unwrap(TlogEntries(bundle)[1].inclusion_proof)).ok

SigningTimeReturned == IsSome(signing_time_res)
SigningTime == Unwrap(signing_time_res)

\* the first RFC 3161 timestamp of the bundle, read as the specification
\* reads it: base64, then the genTime of the TSTInfo
FirstRfc3161(b) ==
    Unwrap(Unwrap(b.verification_material.timestamp_verification_data).rfc3161_timestamps)[1].signed_timestamp

\* C7: a bundle with a non-empty rfc3161_timestamps list and no
\* transparency-log entry makes get_signing_time fail with Rfc3161NotSupported.
C7_Rfc3161OnlyRejected ==
    (SigningTimeReturned /\ Rfc3161Present(bundle) /\ ~HasTlogEntry(bundle))
        => SigningTime = Err(Rfc3161NotSupported)

\* C8: with a non-empty rfc3161_timestamps list and at least one tlog entry,
\* get_signing_time returns the genTime of the first RFC 3161 timestamp, not
\* the integrated_time of the entry.
C8_Rfc3161HasPriority ==
    (/\ SigningTimeReturned /\ Rfc3161Present(bundle) /\ HasTlogEntry(bundle)
     /\ FirstRfc3161(bundle).b64 /\ FirstRfc3161(bundle).bytes[1].tst)
        => SigningTime = Ok(FirstRfc3161(bundle).bytes[1].gen_time)

\* C9: extract_bundle_timestamp and get_signing_time give the same value on
\* every bundle: both succeed with the same Unix seconds, or both fail.
C9_TimestampsAgree ==
    (SigningTimeReturned /\ IsSome(bundle_ts_res))
        => /\ SigningTime.ok = Unwrap(bundle_ts_res).ok
           /\ SigningTime.val = Unwrap(bundle_ts_res).val

\* a decimal integer: an optional sign, then one digit or more
IsDecimalInteger(s) ==
    \/ Len(s) >= 1 /\ \A k \in 1..Len(s) : IsDigit(s[k])
    \/ Len(s) >= 2 /\ s[1] \in {"+", "-"} /\ \A k \in 2..Len(s) : IsDigit(s[k])

RECURSIVE Pow10(_)
Pow10(n) == IF n = 0 THEN 1 ELSE 10 * Pow10(n - 1)

RECURSIVE PlaceValueSum(_, _)
\* the sum of digit * 10^place over the digits at positions k .. Len(s)
PlaceValueSum(s, k) ==
    IF k > Len(s) THEN 0
    ELSE DigitVal(s[k]) * Pow10(Len(s) - k) + PlaceValueSum(s, k + 1)

DecimalValue(s) ==
    IF s[1] = "-" THEN 0 - PlaceValueSum(s, 2)
    ELSE IF s[1] = "+" THEN PlaceValueSum(s, 2)
    ELSE PlaceValueSum(s, 1)

\* C10: without an RFC 3161 timestamp, get_signing_time returns the
\* integrated_time of the first tlog entry read as decimal seconds, whatever
\* the later entries are; a first entry whose integrated_time is no decimal
\* integer gives InvalidIntegratedTime; no tlog entry gives NoTimestamp.
C10_IntegratedTimeOfFirstEntry ==
    (SigningTimeReturned /\ ~Rfc3161Present(bundle))
        => IF ~HasTlogEntry(bundle) THEN SigningTime = Err(NoTimestamp)
           ELSE LET t == TlogEntries(bundle)[1].integrated_time
                IN  IF IsDecimalInteger(t) THEN SigningTime = Ok(DecimalValue(t))
                    ELSE SigningTime = Err(InvalidIntegratedTime)

\* two entries with different times: the first one is returned
C10_Witness ==
    /\ SigningTimeReturned /\ ~Rfc3161Present(bundle) /\ HasTlogEntry(bundle)
    /\ Len(TlogEntries(bundle)) = 2
    /\ TlogEntries(bundle)[1].integrated_time = <<"-", "2">>
    /\ TlogEntries(bundle)[2].integrated_time = <<"1">>
    /\ SigningTime = Ok(0 - 2)

\* C11: verify_signing_time_in_validity accepts a signing time t exactly when
\* not_before <= t <= not_after of the leaf certificate, both bounds
\* inclusive; every other t gives SigningTimeOutsideValidity.
C11_ValidityInclusive ==
    Returned("verify_signing_time_in_validity") =>
        LET t == call.signing_time
            c == call.cert
        IN  IF c.not_before <= t /\ t <= c.not_after
            THEN Unwrap(ret) = Ok("unit")
            ELSE Unwrap(ret) = Err(SigningTimeOutsideValidity)

\* a signing time on the last second of a validity window of several seconds
\* was accepted
C11_Witness ==
    /\ Returned("verify_signing_time_in_validity")
    /\ call.signing_time = call.cert.not_after
    /\ call.cert.not_before < call.cert.not_after
    /\ Unwrap(ret).ok

\* the leaf certificate of the call, once decoded
CallLeaf == decode_base64(call.bundle.verification_material.certificate.raw_bytes)

\* C12: for a trust chain with zero intermediates, verify_certificate_chain
\* returns a result and does not abort: it succeeds when the bundle's leaf is
\* signed directly by the root and the root is self-signed, and it returns
\* ChainVerificationFailed otherwise.
C12_ZeroIntermediatesReturns ==
    (/\ Returned("verify_certificate_chain")
     /\ Len(call.trust_bundle.intermediates) = 0
     /\ CallLeaf.ok /\ CallLeaf.val[1].x509 /\ call.trust_bundle.root.x509) =>
        LET leaf == CallLeaf.val[1]
            root == call.trust_bundle.root
        IN  /\ Unwrap(ret) # Err(Panic)
            /\ IF /\ leaf.signature_key = root.public_key
                  /\ root.signature_key = root.public_key
               THEN Unwrap(ret).ok
               ELSE Unwrap(ret) = Err(ChainVerificationFailed)

\* the sequences that hold the elements of s in another order
OtherOrders(s) ==
    {p \in [1..Len(s) -> {s[i] : i \in 1..Len(s)}] :
        /\ p # s
        /\ \E f \in [1..Len(s) -> 1..Len(s)] :
              /\ \A i, j \in 1..Len(s) : f[i] = f[j] => i = j
              /\ \A i \in 1..Len(s) : p[i] = s[f[i]]}

\* C20: when verify_certificate_chain succeeds, the returned hashes are the
\* SHA-256 of the DER bytes of the leaf, of each intermediate (same order,
\* same number) and of the root; permuting the intermediates of an accepted
\* chain either makes verification fail or changes the hash vector.
C20_HashesFollowChainOrder ==
    (Returned("verify_certificate_chain") /\ Unwrap(ret).ok) =>
        LET ints == call.trust_bundle.intermediates
            hashes == Unwrap(ret).val[1].hashes
        IN  /\ hashes.leaf = sha256(<<CallLeaf.val[1]>>)
            /\ hashes.root = sha256(<<call.trust_bundle.root>>)
            /\ Len(hashes.intermediates) = Len(ints)
            /\ \A i \in 1..Len(ints) : hashes.intermediates[i] = sha256(<<ints[i]>>)
            /\ \A p \in OtherOrders(ints) :
                  LET r == verify_certificate_chain(
                               call.bundle,
                               CertificateChain(<<>>, p, call.trust_bundle.root))
                  IN  ~r.ok \/ r.val[1].hashes # hashes

\* a chain of two different intermediates was accepted
C20_Witness ==
    /\ Returned("verify_certificate_chain") /\ Unwrap(ret).ok
    /\ Len(call.trust_bundle.intermediates) = 2
    /\ call.trust_bundle.intermediates[1] # call.trust_bundle.intermediates[2]

\* a chain of two intermediates that is accepted in both orders
C20_WitnessBothOrders ==
    /\ C20_Witness
    /\ \E p \in OtherOrders(call.trust_bundle.intermediates) :
          verify_certificate_chain(
              call.bundle, CertificateChain(<<>>, p, call.trust_bundle.root)).ok

\* the OIDC identity of the bundle's leaf certificate
LeafIdentity ==
    LET der == decode_base64(bundle.verification_material.certificate.raw_bytes)
    IN  IF ~der.ok THEN Err(ParseError)
        ELSE IF ~parse_der_certificate(der.val[1]).ok THEN Err(ParseError)
        ELSE extract_oidc_identity(der.val[1])

\* an expectation of the options that the leaf's identity does not meet
IdentityDiffers ==
    /\ LeafIdentity.ok
    /\ \/ /\ IsSome(options.expected_issuer)
          /\ LeafIdentity.val[1].issuer # options.expected_issuer
       \/ /\ IsSome(options.expected_subject)
          /\ LeafIdentity.val[1].subject # options.expected_subject

\* C13: when options.expected_issuer or options.expected_subject is set,
\* verify_bundle compares it with the OIDC identity of the leaf certificate;
\* a bundle whose certificate identity differs from the expected issuer or
\* subject is rejected with IdentityMismatch and never yields a
\* VerificationResult.
C13_IdentityMismatchRejected ==
    (VerifyEnded /\ IdentityDiffers) =>
        /\ ~Unwrap(result).ok
        /\ (\A k \in 1..Len(ClaimedOrder) : StepOutcome(ClaimedOrder[k]).ok)
              => Unwrap(result) = Err(IdentityMismatch)

\* C14: the default VerificationOptions has verify_rekor = true, so a
\* verification started with default options performs the transparency-log
\* check; the check is skipped only when the caller sets verify_rekor to
\* false.
C14_DefaultVerifiesRekor ==
    /\ (options = VerificationOptions_default /\ VerifyEnded /\ Unwrap(result).ok)
          => verify_transparency_log(bundle, FALSE).ok
    /\ SkipRekor(options) => ~options.verify_rekor

\* C15: verify_transparency_log returns Ok for every bundle when the caller
\* opts out (skip_verification = true), whatever the tlog entries are; when
\* the caller does not opt out, a bundle whose tlog_entries is absent or
\* empty is rejected with NoRekorEntry.
C15_SkipOrNoRekorEntry ==
    IsSome(tlog_res) =>
        /\ skip_verification => Unwrap(tlog_res) = Ok("unit")
        /\ (~skip_verification /\ ~HasTlogEntry(bundle))
              => Unwrap(tlog_res) = Err(NoRekorEntry)

\* the caller opted out and a bundle that the check rejects was accepted
C15_Witness ==
    /\ IsSome(tlog_res) /\ skip_verification
    /\ ~verify_transparency_log(bundle, FALSE).ok
    /\ Unwrap(tlog_res).ok

\* the caller did not opt out and the list of entries is present but empty
C15_WitnessEmpty ==
    /\ IsSome(tlog_res) /\ ~skip_verification
    /\ bundle.verification_material.tlog_entries = Some(<<>>)
    /\ Unwrap(tlog_res) = Err(NoRekorEntry)

\* ---- the trust-root selector

SelectorReturned == call.fn \in Selectors /\ IsSome(ret)

IsCaCall == call.fn = "select_certificate_authority"

\* the list of a root that the called selector reads
ListOf(root) ==
    IF IsCaCall THEN root.certificate_authorities ELSE root.timestamp_authorities

\* the authorities by (root, place in the root) and the list order
Places == {p \in (1..Len(call.roots)) \X (1..MaxAuthorities + 1) :
              p[2] <= Len(ListOf(call.roots[p[1]]))}
AuthorityAt(p) == ListOf(call.roots[p[1]])[p[2]]
SeenBefore(p, q) == p[1] < q[1] \/ (p[1] = q[1] /\ p[2] < q[2])

ExpectedDomain ==
    IF IsCaCall THEN ExpectedCaDomain(call.instance) ELSE ExpectedTsaDomain(call.instance)

OfInstance(p) == Contains(AuthorityAt(p).uri, ExpectedDomain)

WellFormed(o) == IsSome(o) /\ Unwrap(o).rfc3339
\* the instant of a well-formed RFC 3339 string, in Unix seconds
Instant(o) == Unwrap(o).local - Unwrap(o).offset

\* the authority is of the instance and its window covers the timestamp
Covers(p) ==
    LET w == AuthorityAt(p).valid_for
    IN  /\ OfInstance(p)
        /\ WellFormed(w.start) /\ Instant(w.start) <= call.timestamp
        /\ IsNone(w.end) \/ (WellFormed(w.end) /\ call.timestamp <= Instant(w.end))

Covering == {p \in Places : Covers(p)}

\* the covering authority of the greatest start, the first seen among equals
Latest ==
    CHOOSE p \in Covering :
        \A q \in Covering \ {p} :
            \/ Instant(AuthorityAt(q).valid_for.start) < Instant(AuthorityAt(p).valid_for.start)
            \/ /\ Instant(AuthorityAt(q).valid_for.start) = Instant(AuthorityAt(p).valid_for.start)
               /\ SeenBefore(p, q)

\* the certificate chain of an authority as the selector returns it (the
\* error of the conversion when the chain is empty or does not decode)
ChainOf(p) ==
    IF IsCaCall THEN extract_cert_chain_from_authority(AuthorityAt(p).cert_chain)
    ELSE extract_tsa_cert_chain_from_authority(AuthorityAt(p).cert_chain)

NoAuthorityFound ==
    Err(InvalidBundleFormatWith(
        <<IF IsCaCall THEN "No valid certificate authority found for instance"
          ELSE "No valid timestamp authority found for instance",
          call.instance, "at timestamp", call.timestamp>>))

InvalidTimestamp == Err(InvalidBundleFormatWith(<<"Invalid RFC3339 timestamp">>))

\* an authority of the instance has a start that is not RFC 3339, or a start
\* that is not after the timestamp and an end that is not RFC 3339
Malformed ==
    \E p \in Places :
        LET w == AuthorityAt(p).valid_for
        IN  /\ OfInstance(p) /\ IsSome(w.start)
            /\ \/ ~WellFormed(w.start)
               \/ /\ Instant(w.start) <= call.timestamp
                  /\ IsSome(w.end) /\ ~WellFormed(w.end)

\* C16: the selector returns the chain of the authority with the greatest
\* valid_for.start among the authorities of the instance whose window covers
\* t; among several of the same greatest start, the one seen first in list
\* order (roots in order, authorities in order inside a root).
C16_LatestStartFirstSeen ==
    (SelectorReturned /\ Covering # {}) => Unwrap(ret) = ChainOf(Latest)

\* C16 (amended): as C16, unless an authority of the instance has a
\* malformed start, or a start <= t and a malformed end: then the selector
\* returns InvalidBundleFormat("Invalid RFC3339 timestamp").
C16_LatestStartFirstSeenUnlessMalformed ==
    (SelectorReturned /\ Covering # {}) =>
        Unwrap(ret) = IF Malformed THEN InvalidTimestamp ELSE ChainOf(Latest)

\* two covering authorities with the same start, spelled differently: the
\* chain of the first one is returned
C16_Witness ==
    /\ SelectorReturned /\ ~Malformed
    /\ \E p, q \in Covering :
          /\ p = Latest /\ SeenBefore(p, q) /\ p[1] # q[1]
          /\ AuthorityAt(p).valid_for.start # AuthorityAt(q).valid_for.start
          /\ Instant(AuthorityAt(p).valid_for.start) = Instant(AuthorityAt(q).valid_for.start)
          /\ Unwrap(ret) = ChainOf(p) /\ Unwrap(ret) # ChainOf(q)

\* C17: an authority can be selected only if its URI contains the instance's
\* expected domain, it has a start, start <= t and its end is absent or
\* t <= end (bounds inclusive); when no authority qualifies the selector
\* returns InvalidBundleFormat("No valid ... authority found for instance X
\* at timestamp t"), and only then.
C17_OnlyCoveringElseNotFound ==
    SelectorReturned =>
        /\ Unwrap(ret).ok => \E p \in Covering : Unwrap(ret) = ChainOf(p)
        /\ Covering = {} => Unwrap(ret) = NoAuthorityFound
        /\ Covering # {} => Unwrap(ret) # NoAuthorityFound

\* C17 (amended): as C17, but when no authority qualifies and an authority
\* of the instance has a malformed start, or a start <= t and a malformed
\* end, the error is InvalidBundleFormat("Invalid RFC3339 timestamp").
C17_OnlyCoveringElseNotFoundOrMalformed ==
    SelectorReturned =>
        /\ Unwrap(ret).ok => \E p \in Covering : Unwrap(ret) = ChainOf(p)
        /\ Covering = {} =>
              Unwrap(ret) = IF Malformed THEN InvalidTimestamp ELSE NoAuthorityFound
        /\ Covering # {} => Unwrap(ret) # NoAuthorityFound

\* the timestamp is past the closed end of the only authority of the
\* instance that has started: nothing is selected
C17_Witness ==
    /\ SelectorReturned /\ ~Malformed /\ Covering = {}
    /\ \E p \in Places :
          LET w == AuthorityAt(p).valid_for
          IN  /\ OfInstance(p) /\ WellFormed(w.start) /\ WellFormed(w.end)
              /\ Instant(w.start) <= call.timestamp /\ Instant(w.end) < call.timestamp
    /\ Unwrap(ret) = NoAuthorityFound

\* the timestamp is the last second of a closed window and the authority is
\* selected
C17_WitnessInclusive ==
    /\ SelectorReturned /\ Unwrap(ret).ok
    /\ \E p \in Covering :
          /\ WellFormed(AuthorityAt(p).valid_for.end)
          /\ Instant(AuthorityAt(p).valid_for.end) = call.timestamp
          /\ Unwrap(ret) = ChainOf(p)

\* ---- the bundle parser

BundleParsed ==
    /\ call.fn \in {"parse_bundle_from_bytes", "parse_bundle_from_str"}
    /\ IsSome(ret) /\ call.text.json

ParsedBundle == call.text.bundle[1]

\* the media type is the prefix followed by some rest
HasMediaTypePrefix(m) ==
    \E k \in 0..Len(m) : SubSeq(m, 1, k) = <<"application/", "vnd.dev.sigstore.bundle">>

\* C18: validate_bundle (run by every parse_bundle_* entry point) rejects
\* with InvalidBundleFormat("Unsupported media type: <m>") every bundle whose
\* media type m does not begin with "application/vnd.dev.sigstore.bundle",
\* and with InvalidBundleFormat every bundle whose DSSE signature list is
\* empty; every bundle with the prefix and at least one signature is
\* accepted.  When both conditions fail the media-type error is reported.
C18_MediaTypeThenSignatures ==
    BundleParsed =>
        LET m == ParsedBundle.media_type
        IN  IF ~HasMediaTypePrefix(m)
            THEN Unwrap(ret) =
                    Err(InvalidBundleFormatWith(<<"Unsupported media type: ", m>>))
            ELSE IF Len(ParsedBundle.dsse_envelope.signatures) = 0
            THEN ~Unwrap(ret).ok /\ Unwrap(ret).err[1] = InvalidBundleFormat
            ELSE Unwrap(ret) = Ok(ParsedBundle)

\* a bundle with another media type and no signature: the media-type error
C18_Witness ==
    /\ BundleParsed
    /\ ~HasMediaTypePrefix(ParsedBundle.media_type)
    /\ Len(ParsedBundle.dsse_envelope.signatures) = 0
    /\ Unwrap(ret).err[2][1] = "Unsupported media type: "

\* a bundle whose media type is the prefix and more, with a signature
C18_WitnessAccepted ==
    /\ BundleParsed /\ Unwrap(ret).ok
    /\ Len(ParsedBundle.media_type) > 2

\* the subjects of the statement that the payload of the call encodes
PayloadIsStatement ==
    /\ call.fn = "parse_dsse_payload" /\ IsSome(ret)
    /\ call.envelope.payload.b64 /\ call.envelope.payload.bytes[1].json

PayloadSubjects == call.envelope.payload.bytes[1].subject

\* the sha256 digests (hex) of the subjects that have one
Sha256Digests ==
    {PayloadSubjects[i].sha256_digest : i \in 1..Len(PayloadSubjects)} \ {None}

\* C19: parse_dsse_payload fails when the statement has no subject with a
\* sha256 digest (an empty subject list included); a statement in which at
\* least one subject, not necessarily the first, has a sha256 digest is
\* parsed and yields that digest.
C19_ParseRequiresSha256Subject ==
    PayloadIsStatement =>
        /\ Sha256Digests = {} => ~Unwrap(ret).ok
        /\ Sha256Digests # {} =>
              /\ Unwrap(ret).ok
              /\ get_subject_digest(Unwrap(ret).val[1]) \in Sha256Digests

\* ---- the JSONL loader

\* the places of the line feeds of the content, and the k-th line: the
\* characters between the (k-1)-th and the k-th line feed
LineFeeds == {i \in 1..Len(call.content) : call.content[i] = "\n"}
LineCount == Cardinality(LineFeeds) + 1
LineStart(k) ==
    IF k = 1 THEN 1
    ELSE 1 + CHOOSE i \in LineFeeds : Cardinality({j \in LineFeeds : j <= i}) = k - 1
LineEnd(k) ==
    IF k = LineCount THEN Len(call.content)
    ELSE (CHOOSE i \in LineFeeds : Cardinality({j \in LineFeeds : j <= i}) = k) - 1
\* the characters of line k that are not white space
InkOf(k) ==
    SelectSeq(SubSeq(call.content, LineStart(k), LineEnd(k)),
              LAMBDA c : c \notin {" ", "\r", "\t", "\n"})
NonBlankLines == {k \in 1..LineCount : Len(InkOf(k)) > 0}
IsRootLine(k) == Len(InkOf(k)) = 1 /\ InkOf(k)[1] \in {"{A}", "{B}"}

\* the k-th smallest element of a set of numbers
Nth(S, k) == CHOOSE x \in S : Cardinality({y \in S : y <= x}) = k

\* C21: load_trusted_root_from_jsonl returns exactly one TrustedRoot per
\* non-blank line, in input order, skipping empty and whitespace-only lines;
\* it returns InvalidBundleFormat, with no partial result, when any
\* non-blank line is not a valid TrustedRoot and when the input has no
\* non-blank line.
C21_OneRootPerNonBlankLine ==
    Returned("load_trusted_root_from_jsonl") =>
        IF NonBlankLines # {} /\ \A k \in NonBlankLines : IsRootLine(k)
        THEN /\ Unwrap(ret).ok
             /\ Len(Unwrap(ret).val[1]) = Cardinality(NonBlankLines)
             /\ \A n \in 1..Cardinality(NonBlankLines) :
                   Unwrap(ret).val[1][n] = RootOfText(InkOf(Nth(NonBlankLines, n))[1])
        ELSE /\ ~Unwrap(ret).ok /\ IsNone(Unwrap(ret).val)
             /\ Unwrap(ret).err[1] = InvalidBundleFormat

\* two different roots on two lines with a blank line between them
C21_Witness ==
    /\ Returned("load_trusted_root_from_jsonl") /\ Unwrap(ret).ok
    /\ LineCount >= 3 /\ Cardinality(NonBlankLines) = 2
    /\ Unwrap(ret).val[1][1] # Unwrap(ret).val[1][2]

\* ---- the trust bundle fetcher

\* the certificates that the body serves: the contents of the CERTIFICATE
\* blocks, in the order of the body
ServedCertificates ==
    LET body == Unwrap(call.response.body)
        pems == IF body.format = "pem" THEN body.blocks
                ELSE [k \in 1..Len(body.bundle.chains[1].certificates) |->
                         body.bundle.chains[1].certificates[k][1]]
        certs == SelectSeq(pems, LAMBDA b : b.tag = "CERTIFICATE")
    IN  [k \in 1..Len(certs) |-> certs[k].contents]

\* C22: for every response body that fetch_trust_bundle_from_url parses
\* successfully, in the JSON format or as concatenated PEM certificates, the
\* returned CertificateChain has an empty leaf, and its intermediates and
\* root are the served certificates.
C22_LeafEmptyChainPopulated ==
    (Returned("fetch_trust_bundle_from_url") /\ Unwrap(ret).ok) =>
        LET chain == Unwrap(ret).val[1]
        IN  /\ chain.leaf = <<>>
            /\ Len(chain.intermediates) >= 1
            /\ chain.intermediates \o <<chain.root>> = ServedCertificates

\* ---- the fold of verify_inclusion_proof

\* the fold as the specification states it: (h, i, n) after each proof hash,
\* and whether a proof hash was met with n <= 1
SpecFold ==
    LET m == Len(proof_hashes)
        i[k \in 0..m] == IF k = 0 THEN log_index ELSE i[k - 1] \div 2
        n[k \in 0..m] == IF k = 0 THEN tree_size ELSE (n[k - 1] + 1) \div 2
        h[k \in 0..m] ==
            IF k = 0 THEN leaf_hash
            ELSE IF i[k - 1] % 2 = 0 /\ i[k - 1] + 1 < n[k - 1]
            THEN sha256(<<1, h[k - 1], proof_hashes[k]>>)
            ELSE sha256(<<1, proof_hashes[k], h[k - 1]>>)
    IN  [rejected |-> \E k \in 0..(m - 1) : n[k] <= 1, h |-> h[m]]

\* C23: for log_index < tree_size, verify_inclusion_proof computes the fold
\* of the specification (h becomes H(0x01||h||p) when i is even and i+1 < n
\* and H(0x01||p||h) otherwise, then i := i/2 and n := (n+1)/2); it returns
\* Ok exactly when no step was rejected and the final h equals root_hash,
\* and InclusionProofFailed otherwise.
C23_ComputesTheFold ==
    (MerkleReturned /\ log_index < tree_size) =>
        /\ MerkleResult \in {MerkleOk, InclusionProofFailed}
        /\ MerkleResult = MerkleOk <=> (~SpecFold.rejected /\ SpecFold.h = root_hash)

\* an accepted proof whose first step is a left sibling and whose second
\* step is a last node without a right sibling
C23_Witness ==
    /\ MerkleReturned /\ MerkleResult = MerkleOk
    /\ tree_size = 6 /\ log_index = 4 /\ Len(proof_hashes) = 2

RECURSIVE Pow2(_)
Pow2(k) == IF k = 0 THEN 1 ELSE 2 * Pow2(k - 1)

\* C24: verify_inclusion_proof rejects with InclusionProofFailed every proof
\* that still has a hash to consume when the running subtree size is <= 1
\* (the size before the k-th hash is tree_size halved k-1 times, rounding
\* up); for tree_size = 1 and index 0 only the empty proof can be accepted,
\* and it is accepted exactly when leaf_hash equals root_hash.
C24_ExhaustedSubtreeRejects ==
    MerkleReturned =>
        /\ (Len(proof_hashes) > 0 /\ tree_size <= Pow2(Len(proof_hashes) - 1))
               => MerkleResult = InclusionProofFailed
        /\ (tree_size = 1 /\ log_index = 0)
               => (MerkleResult = MerkleOk
                     <=> (proof_hashes = <<>> /\ leaf_hash = root_hash))

\* a proof of two hashes for a tree of two leaves: the second hash meets a
\* subtree of size 1
C24_Witness ==
    /\ MerkleReturned /\ MerkleResult = InclusionProofFailed
    /\ tree_size = 2 /\ log_index = 0 /\ Len(proof_hashes) = 2

\* the single-leaf tree: accepted with the empty proof
C24_WitnessSingleLeaf ==
    /\ MerkleReturned /\ MerkleResult = MerkleOk
    /\ tree_size = 1 /\ log_index = 0 /\ proof_hashes = <<>>

\* ---- the signature checks of the chain

\* the signature of cert verifies under the key of issuer
SignedBy(cert, issuer) ==
    cert.x509 /\ issuer.x509 /\ cert.signature_key = issuer.public_key

\* every check of the chain leaf, intermediates, root passes
AllSignaturesVerify ==
    LET ints == call.trust_bundle.intermediates
        root == call.trust_bundle.root
    IN  /\ CallLeaf.ok
        /\ SignedBy(CallLeaf.val[1], ints[1])
        /\ \A i \in 1..(Len(ints) - 1) : SignedBy(ints[i], ints[i + 1])
        /\ SignedBy(ints[Len(ints)], root)
        /\ SignedBy(root, root)

AllCertificatesParse ==
    /\ CallLeaf.ok /\ CallLeaf.val[1].x509
    /\ \A i \in 1..Len(call.trust_bundle.intermediates) :
          call.trust_bundle.intermediates[i].x509
    /\ call.trust_bundle.root.x509

\* C25: for a chain with at least one intermediate, verify_certificate_chain
\* puts the bundle's leaf in front of the trust root's intermediates and
\* root and checks leaf by intermediates[0], each intermediate by the next,
\* the last intermediate by the root and the root by itself; it succeeds
\* exactly when all these signatures verify, and a failing check returns
\* ChainVerificationFailed with no chain and no hashes.
C25_SucceedsIffAllSignaturesVerify ==
    (/\ Returned("verify_certificate_chain")
     /\ Len(call.trust_bundle.intermediates) >= 1) =>
        /\ Unwrap(ret).ok <=> AllSignaturesVerify
        /\ Unwrap(ret).ok =>
              Unwrap(ret).val[1].chain =
                  CertificateChain(CallLeaf.val[1], call.trust_bundle.intermediates,
                                   call.trust_bundle.root)
        /\ (AllCertificatesParse /\ ~AllSignaturesVerify) =>
              /\ Unwrap(ret).err = ChainVerificationFailed
              /\ IsNone(Unwrap(ret).val)

\* only the last check fails: the root is not self-signed
C25_Witness ==
    /\ Returned("verify_certificate_chain")
    /\ call.trust_bundle.intermediates = <<Inter2Cert>>
    /\ call.trust_bundle.root = InterCert
    /\ CallLeaf.ok /\ CallLeaf.val[1] = LeafByInter2
    /\ Unwrap(ret) = Err(ChainVerificationFailed)

\* a chain of two intermediates of which every check passes
C25_WitnessAccepted ==
    /\ Returned("verify_certificate_chain") /\ Unwrap(ret).ok
    /\ call.trust_bundle.intermediates = <<Inter2Cert, InterCert>>

\* only the check between the two intermediates fails
C25_WitnessAdjacent ==
    /\ Returned("verify_certificate_chain")
    /\ call.trust_bundle.intermediates = <<RootCert, InterCert>>
    /\ call.trust_bundle.root = RootCert
    /\ CallLeaf.ok /\ CallLeaf.val[1] = LeafByRoot
    /\ Unwrap(ret) = Err(ChainVerificationFailed)

\* ---- the first entry of the transparency log

FirstTlogEntry == TlogEntries(bundle)[1]

\* every field of the inclusion proof of the first entry decodes
ProofFieldsDecode ==
    LET proof == Unwrap(FirstTlogEntry.inclusion_proof)
    IN  /\ ParseInt(proof.log_index, FALSE).ok
        /\ ParseInt(proof.tree_size, FALSE).ok
        /\ decode_base64(proof.root_hash).ok
        /\ \A k \in 1..Len(proof.hashes) : decode_base64(proof.hashes[k]).ok
        /\ decode_base64(FirstTlogEntry.canonicalized_body).ok

\* the decoded proof verifies for leaf_hash = SHA256(0x00 || decoded body)
ProofVerifies ==
    LET proof == Unwrap(FirstTlogEntry.inclusion_proof)
    IN  verify_inclusion_proof(
            sha256(<<0, decode_base64(FirstTlogEntry.canonicalized_body).val[1]>>),
            ParseInt(proof.log_index, FALSE).val[1],
            ParseInt(proof.tree_size, FALSE).val[1],
            [k \in 1..Len(proof.hashes) |-> decode_base64(proof.hashes[k]).val[1]],
            decode_base64(proof.root_hash).val[1]).res = MerkleOk

ProofPartPasses ==
    IsNone(FirstTlogEntry.inclusion_proof) \/ (ProofFieldsDecode /\ ProofVerifies)

PromisePartPasses ==
    \/ IsNone(FirstTlogEntry.inclusion_promise)
    \/ decode_base64(Unwrap(FirstTlogEntry.inclusion_promise).signed_entry_timestamp).ok

\* the bundle with every entry after the first one removed
OnlyFirstEntry ==
    [bundle EXCEPT !.verification_material.tlog_entries = Some(<<FirstTlogEntry>>)]

\* C26: when verification is not skipped and tlog entries exist,
\* verify_transparency_log looks only at the first entry and returns Ok
\* exactly when (the entry has no inclusion proof, or all its fields decode
\* and verify_inclusion_proof succeeds for leaf_hash = SHA256(0x00 || body))
\* and (the entry has no inclusion promise, or its signed_entry_timestamp
\* decodes).  The proof is checked first: a failing proof gives
\* InclusionProofFailed, or InvalidEntryHash for an undecodable field, and
\* an undecodable promise gives SignedEntryTimestampInvalid only when the
\* proof part passed.
C26_FirstEntryProofThenPromise ==
    (IsSome(tlog_res) /\ ~skip_verification /\ HasTlogEntry(bundle)) =>
        /\ Unwrap(tlog_res).ok <=> (ProofPartPasses /\ PromisePartPasses)
        /\ ~ProofPartPasses =>
              Unwrap(tlog_res) = IF ProofFieldsDecode THEN Err(InclusionProofFailed)
                                 ELSE Err(InvalidEntryHash)
        /\ (ProofPartPasses /\ ~PromisePartPasses) =>
              Unwrap(tlog_res) = Err(SignedEntryTimestampInvalid)
        /\ Unwrap(tlog_res) = verify_transparency_log(OnlyFirstEntry, FALSE)

\* a proof of one hash that verifies, a promise that does not decode, and a
\* second entry
C26_Witness ==
    /\ IsSome(tlog_res) /\ ~skip_verification /\ HasTlogEntry(bundle)
    /\ Len(TlogEntries(bundle)) = 2
    /\ IsSome(FirstTlogEntry.inclusion_proof)
    /\ Len(Unwrap(FirstTlogEntry.inclusion_proof).hashes) = 1
    /\ ProofPartPasses /\ ~PromisePartPasses
    /\ Unwrap(tlog_res) = Err(SignedEntryTimestampInvalid)

\* a failing proof in front of an undecodable promise
C26_WitnessProofFirst ==
    /\ IsSome(tlog_res) /\ ~skip_verification /\ HasTlogEntry(bundle)
    /\ ~ProofPartPasses /\ ProofFieldsDecode /\ ~PromisePartPasses
    /\ Unwrap(tlog_res) = Err(InclusionProofFailed)

\* ---- the chain of the selected authority

\* the certificate list of the only authority that the called selector reads
CertificateList == ListOf(call.roots[1])[1].cert_chain.certificates
ListDecodes == \A i \in 1..Len(CertificateList) : CertificateList[i].raw_bytes.b64
\* c[i], counted from 1: the DER bytes of the i-th certificate
DerOf(i) == CertificateList[i].raw_bytes.bytes[1]

\* C27: for a Fulcio (CA) authority with a non-empty certificate list
\* c[0..k-1] the selector's output chain has an empty leaf, root = c[k-1]
\* and intermediates = c[0..k-2] in the same order, so that intermediates
\* followed by root is the input list; an empty list gives
\* InvalidBundleFormat.
C27_CaChainIsListWithEmptyLeaf ==
    (SelectorReturned /\ IsCaCall) =>
        LET k == Len(CertificateList)
        IN  IF k = 0
            THEN ~Unwrap(ret).ok /\ Unwrap(ret).err[1] = InvalidBundleFormat
            ELSE ListDecodes =>
                   /\ Unwrap(ret).ok
                   /\ Unwrap(ret).val[1].leaf = <<>>
                   /\ Unwrap(ret).val[1].root = DerOf(k)
                   /\ Unwrap(ret).val[1].intermediates = [i \in 1..(k - 1) |-> DerOf(i)]
                   /\ Unwrap(ret).val[1].intermediates \o <<Unwrap(ret).val[1].root>>
                        = [i \in 1..k |-> DerOf(i)]

\* three different certificates
C27_Witness ==
    /\ SelectorReturned /\ IsCaCall /\ Unwrap(ret).ok
    /\ Len(CertificateList) = 3
    /\ DerOf(1) # DerOf(2) /\ DerOf(2) # DerOf(3) /\ DerOf(1) # DerOf(3)

\* C28: for a TSA authority with a non-empty certificate list c[0..k-1] the
\* selector's output chain is: k = 1, leaf = root = c[0] and no
\* intermediates; k = 2, leaf = c[0], root = c[1] and no intermediates;
\* k >= 3, leaf = c[0], root = c[k-1] and intermediates = c[1..k-2] in the
\* same order.  An empty list gives InvalidBundleFormat.
C28_TsaChainLeafFirstRootLast ==
    (SelectorReturned /\ ~IsCaCall) =>
        LET k == Len(CertificateList)
        IN  IF k = 0
            THEN ~Unwrap(ret).ok /\ Unwrap(ret).err[1] = InvalidBundleFormat
            ELSE ListDecodes =>
                   /\ Unwrap(ret).ok
                   /\ Unwrap(ret).val[1].leaf = DerOf(1)
                   /\ Unwrap(ret).val[1].root = DerOf(k)
                   /\ Len(Unwrap(ret).val[1].intermediates) = IF k >= 3 THEN k - 2 ELSE 0
                   /\ \A i \in 1..(k - 2) :
                         Unwrap(ret).val[1].intermediates[i] = DerOf(i + 1)

\* four certificates, the two in the middle different
C28_Witness ==
    /\ SelectorReturned /\ ~IsCaCall /\ Unwrap(ret).ok
    /\ Len(CertificateList) = 4
    /\ DerOf(2) # DerOf(3) /\ DerOf(1) # DerOf(4)

\* one certificate: it is leaf and root
C28_WitnessSingle ==
    /\ SelectorReturned /\ ~IsCaCall /\ Unwrap(ret).ok
    /\ Len(CertificateList) = 1
    /\ Unwrap(ret).val[1].leaf = Unwrap(ret).val[1].root

\* ---- the identity of the leaf certificate

\* the general names of the SAN of the certificate of the call
SanOfCall == IF IsSome(call.cert.san) THEN Unwrap(call.cert.san) ELSE <<>>
EmailPlaces == {i \in 1..Len(SanOfCall) : SanOfCall[i].kind = "RFC822Name"}
UriPlaces == {i \in 1..Len(SanOfCall) : SanOfCall[i].kind = "URI"}

\* C29: for every sequence of SAN general names, in any order,
\* extract_oidc_identity sets the subject to an rfc822Name (email) when at
\* least one is present, otherwise to the first URI name, otherwise leaves
\* it absent; a URI never replaces an email.
C29_EmailBeforeUri ==
    Returned("extract_oidc_identity") =>
        /\ Unwrap(ret).ok
        /\ LET subject == Unwrap(ret).val[1].subject
           IN  IF EmailPlaces # {}
               THEN \E i \in EmailPlaces : subject = Some(SanOfCall[i].value)
               ELSE IF UriPlaces # {}
               THEN \A i \in UriPlaces :
                       (\A j \in UriPlaces : i <= j) => subject = Some(SanOfCall[i].value)
               ELSE subject = None

\* an email between two URIs
C29_Witness ==
    /\ Returned("extract_oidc_identity")
    /\ Len(SanOfCall) = 3
    /\ SanOfCall[1].kind = "URI" /\ SanOfCall[2].kind = "RFC822Name"
    /\ SanOfCall[3].kind = "URI"
    /\ Unwrap(ret).val[1].subject = Some(SanOfCall[2].value)

\* two different URIs and no email: the first one is the subject
C29_WitnessFirstUri ==
    /\ Returned("extract_oidc_identity")
    /\ EmailPlaces = {} /\ Len(SanOfCall) = 3
    /\ SanOfCall[2].kind = "URI" /\ SanOfCall[3].kind = "URI"
    /\ SanOfCall[2].value # SanOfCall[3].value
    /\ Unwrap(ret).val[1].subject = Some(SanOfCall[2].value)

\* the value is one TLV of a string tag: tag, length, and as many content
\* bytes as the length says, which are valid text
IsStringTlv(value) ==
    /\ Len(value) >= 2
    /\ value[1] \in {12, 22, 19}
    /\ value[2] = Len(value) - 2
    /\ \A i \in 3..Len(value) : value[i] < 128

\* C30: for every extension value that is one well-formed TLV with tag 0x0C,
\* 0x16 or 0x13, of any content length including zero,
\* extract_string_from_extension returns exactly the content bytes of the
\* TLV; for a value that does not start with one of these tags it returns
\* the whole value read as UTF-8.
C30_TlvContentElseWholeValue ==
    Returned("extract_string_from_extension") =>
        LET value == call.ext.value
        IN  /\ IsStringTlv(value) =>
                  Unwrap(ret) = Ok(Some(SubSeq(value, 3, Len(value))))
            /\ (Len(value) > 0 /\ value[1] \notin {12, 22, 19}) =>
                  Unwrap(ret) = Ok(IF \A i \in 1..Len(value) : value[i] < 128
                                   THEN Some(value) ELSE None)

============================================================================
